---- MODULE Spec2Model ----
(***************************************************************************)
(* A model of the sampling and aggregation engine of ktop (src/ktop.py):   *)
(* the KTop object's collectors _sample_cpu, _sample_net, _gpu_info,       *)
(* _scan_procs and _check_oom, with the state each one owns.               *)
(*                                                                         *)
(* Conventions.                                                            *)
(*  - Every read of the outside world (a /proc file, psutil, NVML, sysfs,  *)
(*    journalctl, time.monotonic()) is a parameter of the action that      *)
(*    models the handler; each specification draws the parameters from     *)
(*    bounded sets.                                                        *)
(*  - Time is counted in clock steps, TimeScale steps to one time unit     *)
(*    (second), so that 1.0, 3.0 and 5.0 in the source are TimeScale,      *)
(*    3 * TimeScale and 5 * TimeScale steps.                               *)
(*  - A Python float is an exact rational <<numerator, denominator>> in    *)
(*    lowest terms with a positive denominator; float rounding is not      *)
(*    modelled.                                                            *)
(*  - Python's None is NoneT (<<>>) where the value is otherwise a tuple.  *)
(*  - Variables whose names end in _obs, and appended, ncalls, scan_times  *)
(*    and oom_queries, are history variables: they record what a call read *)
(*    and returned and never influence the program's state.                *)
(***************************************************************************)
EXTENDS Integers, Sequences, FiniteSets, TLC

\* ------------------------------------------------------------------ bounds
MaxNetTime == 3         \* largest clock reading given to _sample_net
MaxNetCalls == 2        \* _sample_net calls per behaviour of SpecNet
MaxAppends == 310       \* collector calls per history in SpecHist
MaxNvidia == 1          \* NVML devices in SpecHist
MaxAmd == 1             \* sysfs cards in SpecHist
MaxProcTime == 6        \* last clock reading of SpecProc, in time units
MaxOomTime == 11        \* last clock reading of SpecOom, in time units
MaxCards == 2           \* sysfs cards in SpecGpu
MaxGpuCalls == 2        \* _gpu_info calls per behaviour of SpecGpu
MaxSensors == 2         \* sensors of one group in SpecTemps
MaxTicks == 2           \* assemblies that run the collectors in SpecRun
MaxRunTime == 11        \* last clock reading of SpecRun, in time units
MaxTopProcs == 12       \* processes in /proc in SpecTop
MaxTopScans == 2        \* full scans per behaviour of SpecTop
MaxCadenceTime == 10    \* last clock reading of SpecCadence, in time units

\* ------------------------------------------------------------------- time
\* time.monotonic() in clock steps: TimeScale steps make one time unit.
TimeScale == 2

\* ------------------------------------------------------- program constants
HISTORY_LEN == 300
NetFloor == 1
TopN == 10              \* [:10]
FirstScanWait == 1      \* min_wait before the first scan, time units
ScanWait == 3           \* min_wait between later scans
OomWait == 5            \* _check_oom's cache lifetime
ClockTicks == 100       \* os.sysconf("SC_CLK_TCK")
PageSize == 4096        \* os.sysconf("SC_PAGE_SIZE")
CpuMaxFallback == 100   \* temps["cpu_max"] before any sensor is read
MemMaxFallback == 85    \* temps["mem_max"] before any sensor is read
GpuMaxFallback == 95    \* t_max when a GPU reports no threshold
Refresh == 1            \* refresh: float = 1.0, time units between redraws
FromTimestampMax == 1000000  \* last clock step datetime.fromtimestamp() accepts
PickerCols == 3         \* cols = 3, the picker's grid width

\* --------------------------------------------------------------- rationals
Abs(x) == IF x < 0 THEN -x ELSE x

RECURSIVE GCD(_, _)
GCD(a, b) == IF b = 0 THEN a ELSE GCD(b, a % b)

\* n / d in lowest terms with a positive denominator (d = 0, which Python
\* answers with ZeroDivisionError, gives a pair whose denominator is 0).
Rat(n, d) ==
    LET g == IF n = 0 /\ d = 0 THEN 1 ELSE GCD(Abs(n), Abs(d))
        s == IF d < 0 THEN -1 ELSE 1
    IN  <<(s * n) \div g, (s * d) \div g>>

RatInt(n) == <<n, 1>>
RatLt(a, b) == a[1] * b[2] < b[1] * a[2]
RatLe(a, b) == a[1] * b[2] <= b[1] * a[2]
RatMax(a, b) == IF RatLt(a, b) THEN b ELSE a

NoneT == <<>>
Min(a, b) == IF a < b THEN a ELSE b
Max(a, b) == IF a >= b THEN a ELSE b

\* --------------------------------------------------------------- variables
VARIABLES
    raised,              \* "none", or the collector an exception escaped from
    \* rolling histories
    cpu_hist, net_up_hist, net_down_hist, gpu_util_hist, gpu_mem_hist,
    \* network state
    net_max_speed, last_net_sent, last_net_recv, last_net_time,
    \* GPU state
    nvml_initialized, nvidia_ok, nvidia_gpu_count, amd_cards, gpu_count,
    \* process cache
    procs_by_mem, procs_by_cpu, last_proc_scan, proc_cpu_prev,
    \* OOM kill tracking
    sim, last_oom_check, last_oom_str,
    \* the latest reading of time.monotonic()
    clock,
    \* the run: the position of main() / run() / _build, the theme picker's
    \* flag, and how often nvmlShutdown() was called
    pc, picking_theme, nvml_shutdowns, last_refresh,
    \* the active theme and the picker's cursor
    theme_name, theme_cursor,
    \* history variables
    appended, ncalls, net_obs, gpu_obs, scan_obs, scan_times, oom_obs, oom_queries,
    temps_obs, tick_calls, key_obs

histVars == <<cpu_hist, net_up_hist, net_down_hist, gpu_util_hist, gpu_mem_hist>>
netVars == <<net_max_speed, last_net_sent, last_net_recv, last_net_time>>
gpuVars == <<nvml_initialized, nvidia_ok, nvidia_gpu_count, amd_cards, gpu_count>>
procVars == <<procs_by_mem, procs_by_cpu, last_proc_scan, proc_cpu_prev>>
oomVars == <<sim, last_oom_check, last_oom_str>>
netAll == <<netVars, net_obs>>
gpuAll == <<gpuVars, gpu_obs>>
procAll == <<procVars, scan_obs, scan_times>>
oomAll == <<oomVars, oom_obs, oom_queries>>
themeAll == <<theme_name, theme_cursor, key_obs>>
runAll == <<pc, picking_theme, nvml_shutdowns, last_refresh, tick_calls, themeAll>>
vars == <<raised, clock, histVars, netAll, gpuAll, procAll, oomAll, appended, ncalls,
          temps_obs, runAll>>

\* ------------------------------------------------------- rolling histories
\* collections.deque(maxlen=HISTORY_LEN).append(v)
DequeAppendKeepOldest(d, v) == IF Len(d) >= HISTORY_LEN THEN d ELSE Append(d, v)

DequeAppend(d, v) ==
    IF Len(d) >= HISTORY_LEN THEN Append(Tail(d), v) ELSE Append(d, v)

\* ---------------------------------------------------------- GPU discovery
\* One /sys/class/drm/card*/device entry as _detect_amd_gpus probes it:
\*   vendor      "amd" (0x1002), "other", or "unreadable" (OSError)
\*   util, vram  whether gpu_busy_percent / both mem_info_vram_* files exist
\*   vram_total  the integer read from mem_info_vram_total, -1 if unreadable
\*   temp, crit  whether hwmon temp1_input / temp1_crit exist
RECURSIVE DetectAnyVendor(_)
DetectAnyVendor(sysfs) ==
    IF sysfs = <<>> THEN <<>>
    ELSE <<[has_util |-> FALSE, has_vram |-> FALSE, vram_total_bytes |-> 0,
            has_temp |-> FALSE, has_crit |-> FALSE]>> \o DetectAnyVendor(Tail(sysfs))

RECURSIVE DetectAmdGpus(_)
DetectAmdGpus(sysfs) ==
    IF sysfs = <<>> THEN <<>>
    ELSE LET e == Head(sysfs)
             has_vram == e.vram /\ e.vram_total >= 0
             card == [has_util |-> e.util,
                      has_vram |-> has_vram,
                      vram_total_bytes |-> IF has_vram THEN e.vram_total ELSE 0,
                      has_temp |-> e.temp,
                      has_crit |-> e.crit]
         IN  IF e.vendor = "amd"
             THEN <<card>> \o DetectAmdGpus(Tail(sysfs))
             ELSE DetectAmdGpus(Tail(sysfs))

\* ----------------------------------------------------------- construction
\* KTop.__init__, rolling histories and network state.  c: the counters
\* psutil.net_io_counters() returns, t: time.monotonic().
ConstructNet(c, t) ==
    /\ cpu_hist = <<>>
    /\ net_up_hist = <<>>
    /\ net_down_hist = <<>>
    /\ net_max_speed = RatInt(1)
    /\ last_net_sent = c.sent
    /\ last_net_recv = c.recv
    /\ last_net_time = t
    /\ net_obs = [n |-> 0, prev_sent |-> 0, prev_recv |-> 0, prev_time |-> 0,
                  prev_peak |-> RatInt(1), sent |-> 0, recv |-> 0, now |-> 0,
                  up |-> RatInt(0), down |-> RatInt(0)]

\* KTop.__init__, GPU init.  nv: [lib, init_ok, count] where lib is _PYNVML,
\* init_ok whether nvmlInit() returns, count what nvmlDeviceGetCount()
\* returns (-1: it raises).  sysfs: what _detect_amd_gpus finds.
ConstructGpu(nv, sysfs) ==
    LET inited == nv.lib /\ nv.init_ok
        ok == inited /\ nv.count >= 0
        n == IF ok THEN nv.count ELSE 0
        cards == DetectAmdGpus(sysfs)
        total == n + Len(cards)
    IN  /\ nvml_initialized = inited
        /\ nvidia_ok = ok
        /\ nvidia_gpu_count = n
        /\ amd_cards = cards
        /\ gpu_count = total
        /\ gpu_util_hist = [i \in 0..(total - 1) |-> <<>>]
        /\ gpu_mem_hist = [i \in 0..(total - 1) |-> <<>>]
        /\ gpu_obs = [host |-> [nv |-> nv, sysfs |-> sysfs], called |-> FALSE,
                      nv |-> <<>>, amd |-> <<>>, ret |-> <<>>, prev_ret |-> <<>>]

\* temps = {"cpu": None, "cpu_max": 100.0, "mem": None, "mem_max": 85.0, "gpus": []}
\* An optional value is <<v>>, None is <<>>.
TempsDefault == [cpu |-> NoneT, cpu_max |-> CpuMaxFallback, mem |-> NoneT,
                 mem_max |-> MemMaxFallback, gpus |-> <<>>]

\* What psutil.sensors_temperatures() gives: ok = FALSE when it raises or is
\* missing on the platform; cpu and mem are the sensors under the CPU keys
\* and under the memory keys, in the order the loops visit them.  A sensor
\* is [current, high, critical], 0 for a high or critical it does not report.
NoSensors == [ok |-> TRUE, cpu |-> <<>>, mem |-> <<>>]

\* temps_obs records the last _sample_temps call: what psutil and the GPU
\* reads gave (sensors, nvt, amdt) and the dict returned.
NoTemps == [called |-> FALSE, sensors |-> NoSensors, nvt |-> <<>>, amdt |-> <<>>,
            ret |-> TempsDefault]

\* No collector has been called in the current assembly.
NoCalls == [scan |-> 0, gpu |-> 0, net |-> 0, cpu |-> 0, mem |-> 0, temps |-> 0,
            oom |-> 0]

\* list(THEMES.keys()), in the order of the _t(...) calls ("Rose Pine" is
\* spelled with an acute accent in the source).
THEME_NAMES ==
    <<"Default", "Monokai", "Dracula", "Nord", "Solarized",
      "Gruvbox", "One Dark", "Tokyo Night", "Catppuccin Mocha", "Catppuccin Latte",
      "Rose Pine", "Everforest", "Kanagawa", "Monochrome", "Green Screen",
      "Amber", "Phosphor", "Ocean", "Sunset", "Forest",
      "Lava", "Arctic", "Sakura", "Mint", "Lavender",
      "Coral", "Cyberpunk", "Neon", "Synthwave", "Vaporwave",
      "Matrix", "Pastel", "Soft", "Cotton Candy", "Ice Cream",
      "Electric", "Inferno", "Glacier", "Twilight", "Autumn",
      "Spring", "Summer", "Winter", "High Contrast", "Blueprint",
      "Redshift", "Emerald", "Royal", "Bubblegum", "Horizon">>

\* THEMES, by its keys.
THEMES == {THEME_NAMES[i] : i \in 1..Len(THEME_NAMES)}

\* THEME_NAMES.index(name), counted from 0.
ThemeIndex(name) ==
    CHOOSE i \in 0..(Len(THEME_NAMES) - 1) : THEME_NAMES[i + 1] = name

\* KTop.__init__, theme, then main()'s --theme.  cfg: the "theme" value of the
\* config file, NoneT when the file or the key is missing; arg: args.theme.
\* key_obs records the last _handle_key call: the key, whether it returned
\* quit, and the picker flag, theme and cursor it found.
ConstructTheme(cfg, arg) ==
    LET wanted == IF cfg = NoneT THEN "Vaporwave" ELSE cfg[1]
        name == IF wanted \notin THEMES THEN "Default" ELSE wanted
    IN  /\ theme_cursor = ThemeIndex(name)
        /\ theme_name = IF arg # NoneT /\ arg[1] \in THEMES THEN arg[1] ELSE name
        /\ key_obs = [key |-> "", quit |-> FALSE, picking |-> FALSE,
                      theme |-> theme_name, cursor |-> theme_cursor]

\* KTop.__init__, theme picker state, and the logs of a new object.
ConstructRest ==
    /\ picking_theme = FALSE
    /\ nvml_shutdowns = 0
    /\ last_refresh = 0
    /\ tick_calls = NoCalls
    /\ temps_obs = NoTemps
    /\ ncalls = [cpu |-> 0, net |-> 0, gpu |-> 0]
    /\ appended = [cpu |-> <<>>, up |-> <<>>, down |-> <<>>,
                   gutil |-> [i \in DOMAIN gpu_util_hist |-> <<>>],
                   gmem |-> [i \in DOMAIN gpu_mem_hist |-> <<>>]]

\* A KTop object whose collectors are called directly, outside run().
ConstructGhost ==
    /\ raised = "none"
    /\ pc = "collectors"
    /\ ConstructRest
    /\ ConstructTheme(NoneT, NoneT)

\* ------------------------------------------------------------ _sample_cpu
\* pct: what psutil.cpu_percent(interval=None) returns.
SampleCpu(pct) ==
    /\ raised = "none"
    /\ cpu_hist' = DequeAppend(cpu_hist, pct)
    /\ appended' = [appended EXCEPT !.cpu = Append(@, pct)]
    /\ ncalls' = [ncalls EXCEPT !.cpu = @ + 1]
    /\ UNCHANGED <<raised, clock, net_up_hist, net_down_hist, gpu_util_hist,
                   gpu_mem_hist, netAll, gpuAll, procAll, oomAll, temps_obs>>

\* ------------------------------------------------------------ _sample_net
\* The elapsed time the rates are divided by: a measured time <= 0 becomes 1.0.
NetDtNoGuard(measured) == measured

NetDt(measured) == IF measured <= 0 THEN TimeScale ELSE measured

\* bytes per time unit over dt clock steps
NetRate(cur, prev, dt) == Rat((cur - prev) * TimeScale, dt)

\* max(self.net_max_speed, up, down, 1.0)
NetPeakForgetful(peak, up, down) == RatMax(RatMax(up, down), RatInt(NetFloor))

NetPeak(peak, up, down) ==
    RatMax(RatMax(RatMax(peak, up), down), RatInt(NetFloor))

\* c: [ok, sent, recv], the result of psutil.net_io_counters() (ok = FALSE:
\* it raises); t: time.monotonic().
SampleNet(c, t) ==
    /\ raised = "none"
    /\ ncalls' = [ncalls EXCEPT !.net = @ + 1]
    /\ UNCHANGED <<procAll, oomAll, gpuAll, temps_obs>>
    /\ IF ~c.ok
       THEN /\ raised' = "_sample_net"
            /\ UNCHANGED <<clock, histVars, netAll, appended>>
       ELSE LET dt == NetDt(t - last_net_time)
                up == NetRate(c.sent, last_net_sent, dt)
                down == NetRate(c.recv, last_net_recv, dt)
            IN  /\ last_net_sent' = c.sent
                /\ last_net_recv' = c.recv
                /\ last_net_time' = t
                /\ net_max_speed' = NetPeak(net_max_speed, up, down)
                /\ net_up_hist' = DequeAppend(net_up_hist, up)
                /\ net_down_hist' = DequeAppend(net_down_hist, down)
                /\ appended' = [appended EXCEPT !.up = Append(@, up),
                                                !.down = Append(@, down)]
                /\ net_obs' = [n |-> net_obs.n + 1,
                               prev_sent |-> last_net_sent,
                               prev_recv |-> last_net_recv,
                               prev_time |-> last_net_time,
                               prev_peak |-> net_max_speed,
                               sent |-> c.sent, recv |-> c.recv, now |-> t,
                               up |-> up, down |-> down]
                /\ clock' = t
                /\ UNCHANGED <<raised, cpu_hist, gpu_util_hist, gpu_mem_hist>>

\* -------------------------------------------------------------- _gpu_info
GiB == 1024 * 1024 * 1024

\* mem.used / mem.total * 100 if mem.total else 0
MemPct(used, total) == IF total # 0 THEN Rat(used * 100, total) ELSE RatInt(0)

\* The name stands for the physical device it was read from: the NVML index
\* of an NVIDIA device, the position of an AMD card among the sysfs cards.
GpuDict(id, name, util, used, total) ==
    [id |-> id, name |-> name, util |-> util,
     mem_used_gb |-> Rat(used, GiB), mem_total_gb |-> Rat(total, GiB),
     mem_pct |-> MemPct(used, total)]

\* The dict of NVIDIA device i (0-based); nv[i + 1] is what NVML answers for it:
\* [ok, util, used, total], ok = FALSE when any of the NVML calls raises.
NvidiaDict(nv, i) ==
    GpuDict(i, <<"nvidia", i>>, nv[i + 1].util, nv[i + 1].used, nv[i + 1].total)

AmdDictOwnIds(amd, j) ==
    LET r == amd[j + 1]
    IN  GpuDict(j, <<"amd", j>>, r.util, r.used, amd_cards[j + 1].vram_total_bytes)

AmdDictReadsAnyway(amd, j) ==
    LET r == amd[j + 1]
    IN  GpuDict(nvidia_gpu_count + j, <<"amd", j>>,
                IF r.util >= 0 THEN r.util ELSE 0,
                IF r.used >= 0 THEN r.used ELSE 0,
                amd_cards[j + 1].vram_total_bytes)

\* _amd_gpu_info, card j (0-based); amd[j + 1] is what the cached sysfs files
\* read as: [util, used], -1 for a failed read (OSError, ValueError).
AmdDict(amd, j) ==
    LET card == amd_cards[j + 1]
        r == amd[j + 1]
        util == IF card.has_util /\ r.util >= 0 THEN r.util ELSE 0
        used == IF card.has_vram /\ r.used >= 0 THEN r.used ELSE 0
    IN  GpuDict(nvidia_gpu_count + j, <<"amd", j>>, util, used, card.vram_total_bytes)

\* The ids sampled in this call, and the dict of each.
GpuSampled(nv) ==
    {i \in 0..(nvidia_gpu_count - 1) : nvidia_ok /\ nv[i + 1].ok}
        \cup {nvidia_gpu_count + j : j \in 0..(Len(amd_cards) - 1)}

GpuDictOf(nv, amd, id) ==
    IF id < nvidia_gpu_count THEN NvidiaDict(nv, id)
    ELSE AmdDict(amd, id - nvidia_gpu_count)

\* The returned list: the sampled ids in ascending order.
RECURSIVE GpuList(_, _, _, _)
GpuList(nv, amd, ids, from) ==
    IF from >= gpu_count THEN <<>>
    ELSE IF from \in ids
         THEN <<GpuDictOf(nv, amd, from)>> \o GpuList(nv, amd, ids, from + 1)
         ELSE GpuList(nv, amd, ids, from + 1)

GpuInfo(nv, amd) ==
    LET ids == GpuSampled(nv)
        d(id) == GpuDictOf(nv, amd, id)
    IN  /\ raised = "none"
        /\ Len(nv) = nvidia_gpu_count
        /\ Len(amd) = Len(amd_cards)
        /\ gpu_util_hist' = [id \in DOMAIN gpu_util_hist |->
               IF id \in ids THEN DequeAppend(gpu_util_hist[id], d(id).util)
               ELSE gpu_util_hist[id]]
        /\ gpu_mem_hist' = [id \in DOMAIN gpu_mem_hist |->
               IF id \in ids THEN DequeAppend(gpu_mem_hist[id], d(id).mem_pct)
               ELSE gpu_mem_hist[id]]
        /\ appended' = [appended EXCEPT
               !.gutil = [id \in DOMAIN @ |->
                   IF id \in ids THEN Append(@[id], d(id).util) ELSE @[id]],
               !.gmem = [id \in DOMAIN @ |->
                   IF id \in ids THEN Append(@[id], d(id).mem_pct) ELSE @[id]]]
        /\ gpu_obs' = [host |-> gpu_obs.host, called |-> TRUE, nv |-> nv, amd |-> amd,
                       ret |-> GpuList(nv, amd, ids, 0), prev_ret |-> gpu_obs.ret]
        /\ ncalls' = [ncalls EXCEPT !.gpu = @ + 1]
        /\ UNCHANGED <<raised, clock, cpu_hist, net_up_hist, net_down_hist,
                       netAll, gpuVars, procAll, oomAll, temps_obs>>

\* ---------------------------------------------------------- _sample_temps
\* The CPU loop: a sensor above the running maximum becomes the reported
\* temperature; its critical value, else its high value, replaces cpu_max
\* only when it is above the cpu_max held so far.
RECURSIVE CpuTemps(_, _, _)
CpuTemps(sensors, cur, max) ==
    IF sensors = <<>> THEN [cur |-> cur, max |-> max]
    ELSE LET sn == Head(sensors)
         IN  IF cur = NoneT \/ sn.current > cur[1]
             THEN CpuTemps(Tail(sensors), <<sn.current>>,
                           IF sn.critical # 0 /\ sn.critical > max THEN sn.critical
                           ELSE IF sn.high # 0 /\ sn.high > max THEN sn.high
                           ELSE max)
             ELSE CpuTemps(Tail(sensors), cur, max)

\* The memory loop: a sensor above the running maximum becomes the reported
\* temperature, and its critical value, when it reports one, becomes mem_max.
RECURSIVE MemTemps(_, _, _)
MemTemps(sensors, cur, max) ==
    IF sensors = <<>> THEN [cur |-> cur, max |-> max]
    ELSE LET sn == Head(sensors)
         IN  IF cur = NoneT \/ sn.current > cur[1]
             THEN MemTemps(Tail(sensors), <<sn.current>>,
                           IF sn.critical # 0 THEN sn.critical ELSE max)
             ELSE MemTemps(Tail(sensors), cur, max)

\* NVIDIA device i: nvt[i] is [ok, temp, max_ok, max], ok = FALSE when the
\* handle or the temperature call raises, max_ok = FALSE when the threshold
\* call raises.
NvidiaTemp(r) ==
    IF r.ok THEN <<[temp |-> RatInt(r.temp),
                    max |-> RatInt(IF r.max_ok THEN r.max ELSE GpuMaxFallback)]>>
    ELSE NoneT

\* AMD card: r is [temp, crit], what temp1_input and temp1_crit read as in
\* millidegrees, -1 for a failed read.
AmdTemp(card, r) ==
    IF card.has_temp /\ r.temp >= 0
    THEN <<[temp |-> Rat(r.temp, 1000),
            max |-> IF card.has_crit /\ r.crit >= 0 THEN Rat(r.crit, 1000)
                    ELSE RatInt(GpuMaxFallback)]>>
    ELSE NoneT

\* temps["gpus"]: one append per NVIDIA device when nvidia_ok, then one per
\* AMD card, a dict or None.
GpuTempsFailedLeftOut(nvt, amdt) ==
    SelectSeq([i \in 1..(IF nvidia_ok THEN nvidia_gpu_count ELSE 0) |->
                   NvidiaTemp(nvt[i])]
              \o [j \in 1..Len(amd_cards) |-> AmdTemp(amd_cards[j], amdt[j])],
              LAMBDA e : e # NoneT)

GpuTemps(nvt, amdt) ==
    [i \in 1..(IF nvidia_ok THEN nvidia_gpu_count ELSE 0) |-> NvidiaTemp(nvt[i])]
        \o [j \in 1..Len(amd_cards) |-> AmdTemp(amd_cards[j], amdt[j])]

\* The dict _sample_temps returns.
TempsDict(sensors, nvt, amdt) ==
    LET c == IF sensors.ok THEN CpuTemps(sensors.cpu, NoneT, CpuMaxFallback)
             ELSE [cur |-> NoneT, max |-> CpuMaxFallback]
        m == IF sensors.ok THEN MemTemps(sensors.mem, NoneT, MemMaxFallback)
             ELSE [cur |-> NoneT, max |-> MemMaxFallback]
    IN  [cpu |-> c.cur, cpu_max |-> c.max, mem |-> m.cur, mem_max |-> m.max,
         gpus |-> GpuTemps(nvt, amdt)]

SampleTemps(sensors, nvt, amdt) ==
    /\ raised = "none"
    /\ Len(nvt) = nvidia_gpu_count
    /\ Len(amdt) = Len(amd_cards)
    /\ temps_obs' = [called |-> TRUE, sensors |-> sensors, nvt |-> nvt, amdt |-> amdt,
                     ret |-> TempsDict(sensors, nvt, amdt)]
    /\ UNCHANGED <<raised, clock, histVars, netAll, gpuAll, procAll, oomAll,
                   appended, ncalls>>

\* ------------------------------------------------------------ _scan_procs
\* One /proc/<pid> entry as a scan finds it, in the order os.listdir gives:
\*   pid     the numeric name (names that are not digits are skipped and left out)
\*   ok      FALSE when reading or parsing /proc/<pid>/stat fails
\*   ticks   utime + stime;  rss  resident pages
\*   shared  the third field of /proc/<pid>/statm, -1 when that read fails
\* scan_obs records the last full scan: the table it read, every dict it
\* built, the pids that held a baseline before it, the pids whose statm it read.
\* The record of a process leaves out its name, which no ranking reads.

\* sorted(procs, key=lambda x: x[field], reverse=True): a stable sort, so
\* records with equal keys keep the order they were enumerated in.
InsertDesc(sorted, x, field) ==
    LET k == Cardinality({i \in 1..Len(sorted) : RatLe(x[field], sorted[i][field])})
    IN  SubSeq(sorted, 1, k) \o <<x>> \o SubSeq(sorted, k + 1, Len(sorted))

RECURSIVE SortedDesc(_, _)
SortedDesc(s, field) ==
    IF s = <<>> THEN <<>>
    ELSE InsertDesc(SortedDesc(SubSeq(s, 1, Len(s) - 1), field), s[Len(s)], field)

\* s[:10]
Top(s) == SubSeq(s, 1, Min(Len(s), TopN))

\* min_wait = 1.0 if not self._procs_by_mem else 3.0
MinWaitNone(by_mem) == 0

MinWaitAlwaysFirst(by_mem) == FirstScanWait * TimeScale

MinWait(by_mem) ==
    IF by_mem = <<>> THEN FirstScanWait * TimeScale ELSE ScanWait * TimeScale

\* dt = now - self._last_proc_scan if self._last_proc_scan > 0 else 1.0
ScanDt(t, last) == IF last > 0 THEN t - last ELSE TimeScale

\* (cpu_delta / ct) / dt * 100 if dt > 0 else 0, dt in clock steps
CpuPctPerScan(delta, dt) == Rat(delta * 100, ClockTicks)

CpuPct(delta, dt) ==
    IF dt > 0 THEN Rat(delta * 100 * TimeScale, ClockTicks * dt) ELSE RatInt(0)

\* cpu_prev.get(pid, cpu_total)
BaselineZero(prev, pid, cpu_total) ==
    IF pid \in DOMAIN prev THEN prev[pid] ELSE 0

Baseline(prev, pid, cpu_total) ==
    IF pid \in DOMAIN prev THEN prev[pid] ELSE cpu_total

\* The dict appended to procs for one readable entry.
ProcDict(e, prev, dt, total_mem) ==
    [pid |-> e.pid,
     cpu_percent |-> CpuPct(e.ticks - Baseline(prev, e.pid, e.ticks), dt),
     memory_percent |-> MemPct(e.rss * PageSize, total_mem),
     rss |-> e.rss * PageSize,
     memory_info |-> NoneT]

\* The loop over os.listdir("/proc"): the dicts of the readable entries, in
\* enumeration order.
RECURSIVE ReadProcsUntilFailure(_, _, _, _)
ReadProcsUntilFailure(table, prev, dt, total_mem) ==
    IF table = <<>> \/ ~Head(table).ok THEN <<>>
    ELSE <<ProcDict(Head(table), prev, dt, total_mem)>>
             \o ReadProcsUntilFailure(Tail(table), prev, dt, total_mem)

RECURSIVE ReadProcs(_, _, _, _)
ReadProcs(table, prev, dt, total_mem) ==
    IF table = <<>> THEN <<>>
    ELSE LET e == Head(table)
             rest == ReadProcs(Tail(table), prev, dt, total_mem)
         IN  IF e.pid = 0 \/ ~e.ok THEN rest
             ELSE <<ProcDict(e, prev, dt, total_mem)>> \o rest

TicksRead(table, pid) ==
    LET e == CHOOSE x \in {table[i] : i \in 1..Len(table)} : x.pid = pid
    IN  e.ticks

SeqPids(s) == {s[i].pid : i \in 1..Len(s)}

\* cpu_prev[pid] = cpu_total for every readable entry, then the entries of
\* pids not read in this scan are dropped.
BaselinesNeverPruned(prev, table, current) ==
    [p \in DOMAIN prev \cup current |->
        IF p \in current THEN TicksRead(table, p) ELSE prev[p]]

Baselines(prev, table, current) ==
    LET updated == [p \in DOMAIN prev \cup current |->
                       IF p \in current THEN TicksRead(table, p) ELSE prev[p]]
    IN  [p \in DOMAIN updated \cap current |-> updated[p]]

\* The pids whose /proc/<pid>/statm is opened: for p in procs, those that are
\* in displayed.
StatmReadsAll(procs, displayed) == SeqPids(procs)

StatmReads(procs, displayed) ==
    {procs[i].pid : i \in {k \in 1..Len(procs) : procs[k].pid \in displayed}}

\* p["memory_info"] = SimpleNamespace(rss=p["rss"], shared=shared) for the
\* displayed pids; the lists hold the same dicts, so they see the new key.
WithMemoryInfo(s, table, displayed) ==
    [i \in 1..Len(s) |->
        IF s[i].pid \in displayed
        THEN LET e == CHOOSE x \in {table[k] : k \in 1..Len(table)} :
                          x.pid = s[i].pid
                 shared == IF e.shared >= 0 THEN e.shared * PageSize ELSE 0
             IN  [s[i] EXCEPT !.memory_info = <<s[i].rss, shared>>]
        ELSE s[i]]

\* KTop.__init__, process cache: the baselines are seeded from a first pass
\* over /proc at time t.
ConstructProc(table, t) ==
    LET readable == {table[i].pid : i \in {k \in 1..Len(table) : table[k].ok}}
    IN  /\ procs_by_mem = <<>>
        /\ procs_by_cpu = <<>>
        /\ proc_cpu_prev = [p \in readable |-> TicksRead(table, p)]
        /\ last_proc_scan = t
        /\ clock = t
        /\ scan_obs = [full |-> FALSE, table |-> <<>>, procs |-> <<>>,
                       prev |-> {}, statm |-> {}]
        /\ scan_times = <<t>>

\* t: time.monotonic(); env: [vm_ok, total_mem, ls_ok], whether
\* psutil.virtual_memory() and os.listdir("/proc") return, and the total
\* memory; table: the entries of /proc.
ScanProcs(t, env, table) ==
    /\ raised = "none"
    /\ clock' = t
    /\ UNCHANGED <<histVars, netAll, gpuAll, oomAll, appended, ncalls, temps_obs>>
    /\ IF t - last_proc_scan < MinWait(procs_by_mem)
       THEN /\ scan_obs' = [scan_obs EXCEPT !.full = FALSE]
            /\ UNCHANGED <<raised, procVars, scan_times>>
       ELSE /\ last_proc_scan' = t
            /\ scan_times' = Append(scan_times, t)
            /\ IF ~env.vm_ok \/ ~env.ls_ok
               THEN /\ raised' = "_scan_procs"
                    /\ scan_obs' = [scan_obs EXCEPT !.full = FALSE]
                    /\ UNCHANGED <<procs_by_mem, procs_by_cpu, proc_cpu_prev>>
               ELSE \* each intermediate result is bound once
                    \E procs \in {ReadProcs(table, proc_cpu_prev,
                                              ScanDt(t, last_proc_scan), env.total_mem)} :
                    \E by_mem \in {Top(SortedDesc(procs, "memory_percent"))},
                       by_cpu \in {Top(SortedDesc(procs, "cpu_percent"))} :
                    LET current == SeqPids(procs)
                        displayed == SeqPids(by_mem) \cup SeqPids(by_cpu)
                    IN  /\ proc_cpu_prev' = Baselines(proc_cpu_prev, table, current)
                        /\ procs_by_mem' = WithMemoryInfo(by_mem, table, displayed)
                        /\ procs_by_cpu' = WithMemoryInfo(by_cpu, table, displayed)
                        /\ scan_obs' = [full |-> TRUE, table |-> table,
                                        procs |-> WithMemoryInfo(procs, table, displayed),
                                        prev |-> DOMAIN proc_cpu_prev,
                                        statm |-> StatmReads(procs, displayed)]
                        /\ UNCHANGED raised

\* ------------------------------------------------------------- _check_oom
\* What one journalctl query gives:
\*   status  "failed" (subprocess.run raises: timeout, no journalctl),
\*           "nomatch" (non-zero exit or empty output), "line" (a last line)
\*   ts      the leading seconds.microseconds of that line in clock steps,
\*           -1 when the line does not start with one
\*   name    the killed process or unit found on the line, "" when there is none

\* name.replace(".scope", "").replace(".service", ""), then _UUID_RE.sub("", name)
CleanName(name) ==
    CASE name = "app.scope" -> "app"
      [] name = "web.service" -> "web"
      [] name = "job-0a1b2c3d-0000-0000-0000-000000000000.scope" -> "job"
      [] OTHER -> name

\* 1) Kernel OOM kills: a candidate needs the timestamp and the process name.
KernelCandidates(q) ==
    IF q.status = "line" /\ q.ts >= 0 /\ q.name # ""
    THEN <<[epoch |-> q.ts, name |-> q.name]>> ELSE <<>>

\* 2) systemd-oomd kills: a candidate needs the timestamp alone.
OomdCandidates(q) ==
    IF q.status = "line" /\ q.ts >= 0
    THEN <<[epoch |-> q.ts,
            name |-> CleanName(IF q.name # "" THEN q.name ELSE "oomd-kill")]>>
    ELSE <<>>

\* candidates.sort(key=lambda x: x[0], reverse=True); candidates[0]: the sort
\* is stable, so the kernel candidate stays first on equal timestamps.
NewestEarliest(cands) ==
    IF Len(cands) = 2 /\ cands[2].epoch < cands[1].epoch THEN cands[2] ELSE cands[1]

Newest(cands) ==
    IF Len(cands) = 2 /\ cands[2].epoch > cands[1].epoch THEN cands[2] ELSE cands[1]

\* f"{dt.strftime('%b %d %H:%M:%S')} {proc}": the time is cut to whole seconds.
OomStr(c) == <<c.epoch \div TimeScale, c.name>>

OomResultAllOrNothing(k, o) ==
    LET cands == KernelCandidates(k) \o OomdCandidates(o)
    IN  IF k.status # "failed" /\ o.status # "failed" /\ cands # <<>>
        THEN OomStr(Newest(cands)) ELSE NoneT

OomResult(k, o) ==
    LET cands == KernelCandidates(k) \o OomdCandidates(o)
    IN  IF cands # <<>> THEN OomStr(Newest(cands)) ELSE NoneT

\* dt = datetime.fromtimestamp(epoch), outside both try blocks: it raises
\* (OverflowError, ValueError, OSError) for a timestamp beyond its range.
FromTimestampRaises(k, o) ==
    LET cands == KernelCandidates(k) \o OomdCandidates(o)
    IN  cands # <<>> /\ Newest(cands).epoch > FromTimestampMax

\* now - self._last_oom_check < 5.0
OomThrottledNever(t, last) == FALSE

OomThrottled(t, last) == t - last < OomWait * TimeScale

NoQuery == [status |-> "nomatch", ts |-> -1, name |-> ""]

\* KTop.__init__, OOM kill tracking.
ConstructOom(s) ==
    /\ sim = s
    /\ last_oom_check = 0
    /\ last_oom_str = NoneT
    /\ oom_queries = <<>>
    /\ oom_obs = [called |-> FALSE, throttled |-> FALSE, queried |-> FALSE, now |-> 0,
                  k |-> NoQuery, o |-> NoQuery, ret |-> NoneT,
                  prev_str |-> NoneT, prev_check |-> 0]

\* t: time.monotonic(); k, o: the kernel and the systemd-oomd query; fake:
\* what the random draws of simulation mode produce.
CheckOom(t, k, o, fake) ==
    /\ raised = "none"
    /\ clock' = t
    /\ UNCHANGED <<sim, histVars, netAll, gpuAll, procAll, appended, ncalls, temps_obs>>
    /\ IF OomThrottled(t, last_oom_check)
       THEN /\ UNCHANGED raised
            /\ oom_obs' = [called |-> TRUE, throttled |-> TRUE,
                           queried |-> FALSE, now |-> t,
                           k |-> NoQuery, o |-> NoQuery, ret |-> last_oom_str,
                           prev_str |-> last_oom_str,
                           prev_check |-> last_oom_check]
            /\ UNCHANGED <<last_oom_check, last_oom_str, oom_queries>>
       ELSE LET result == IF sim THEN fake ELSE OomResult(k, o)
                escapes == ~sim /\ FromTimestampRaises(k, o)
            IN  /\ last_oom_check' = t
                /\ last_oom_str' = IF escapes THEN last_oom_str ELSE result
                /\ oom_queries' = IF sim THEN oom_queries ELSE Append(oom_queries, t)
                /\ oom_obs' = [called |-> TRUE, throttled |-> FALSE,
                               queried |-> ~sim, now |-> t,
                               k |-> IF sim THEN NoQuery ELSE k,
                               o |-> IF sim THEN NoQuery ELSE o,
                               ret |-> IF escapes THEN NoneT ELSE result,
                               prev_str |-> last_oom_str,
                               prev_check |-> last_oom_check]
                /\ raised' = IF escapes THEN "_check_oom" ELSE raised

\* ===================================================== specification SpecNet
\* _sample_net under every sequence of counter and clock readings, the clock
\* standing still or stepping back included.
NetSent == {1000, 2000}
NetRecv == {500, 1000}
NetCounters ==
    [ok : {TRUE}, sent : NetSent, recv : NetRecv]
        \cup {[ok |-> FALSE, sent |-> 0, recv |-> 0]}

NoNvidia == [lib |-> FALSE, init_ok |-> FALSE, count |-> 0]

InitNet ==
    /\ \E c \in NetCounters, t \in 0..MaxNetTime : c.ok /\ ConstructNet(c, t)
    /\ ConstructGpu(NoNvidia, <<>>)
    /\ ConstructProc(<<>>, TimeScale)
    /\ ConstructOom(FALSE)
    /\ ConstructGhost

NextNet ==
    \E c \in NetCounters, t \in 0..MaxNetTime :
        ncalls.net < MaxNetCalls /\ SampleNet(c, t) /\ UNCHANGED runAll

SpecNet == InitNet /\ [][NextNet]_vars

\* ==================================================== specification SpecHist
\* The collectors that append to a rolling history, called in the order of
\* _build (GPU, network, CPU) for MaxAppends rounds, on every small GPU
\* configuration.  The readings are a fixed function of the round, so that a
\* history can be filled past its capacity.
HistNvSample(n) ==
    [ok |-> n % 50 # 7, util |-> (n * n) % 11, used |-> n % 5, total |-> 8]
HistAmdSample(n) == [util |-> IF n % 9 = 4 THEN -1 ELSE n % 13, used |-> n % 7]
HistCounters(n) ==
    [ok |-> TRUE, sent |-> 1000 * ((n * n) % 7), recv |-> 500 * (n % 3)]
HistCpuPct(n) == (n * 3) % 101

HistSysfs ==
    [vendor : {"amd"}, util : BOOLEAN, vram : {TRUE}, vram_total : {8},
     temp : {FALSE}, crit : {FALSE}]

InitHist ==
    /\ ConstructNet([ok |-> TRUE, sent |-> 0, recv |-> 0], TimeScale)
    /\ \E n \in 0..MaxNvidia, k \in 0..MaxAmd, e \in HistSysfs :
           ConstructGpu([lib |-> TRUE, init_ok |-> TRUE, count |-> n],
                        [j \in 1..k |-> e])
    /\ ConstructProc(<<>>, TimeScale)
    /\ ConstructOom(FALSE)
    /\ ConstructGhost

HistGpu ==
    /\ ncalls.gpu = ncalls.cpu
    /\ ncalls.gpu < MaxAppends
    /\ GpuInfo([i \in 1..nvidia_gpu_count |-> HistNvSample(ncalls.gpu + i)],
               [j \in 1..Len(amd_cards) |-> HistAmdSample(ncalls.gpu + j)])
    /\ UNCHANGED runAll

HistNet ==
    /\ ncalls.net < ncalls.gpu
    /\ SampleNet(HistCounters(ncalls.net), last_net_time + 1 + (ncalls.net % 2))
    /\ UNCHANGED runAll

HistCpu ==
    /\ ncalls.cpu < ncalls.net
    /\ SampleCpu(HistCpuPct(ncalls.cpu))
    /\ UNCHANGED runAll

NextHist == HistGpu \/ HistNet \/ HistCpu

SpecHist == InitHist /\ [][NextHist]_vars

\* ===================================================================== C3
\* A history holds the most recent min(N, HISTORY_LEN) of the N values
\* appended to it, in insertion order.
IsRecentWindow(h, log) ==
    /\ Len(h) = Min(Len(log), HISTORY_LEN)
    /\ h = SubSeq(log, Len(log) - Len(h) + 1, Len(log))

\* C3: every rolling history (CPU, network up, network down, per-GPU
\* utilization, per-GPU memory) has length min(N, 300) after N appends and
\* holds exactly the last min(N, 300) appended values, oldest first.
C3_HistoriesAreRecentWindows ==
    /\ IsRecentWindow(cpu_hist, appended.cpu)
    /\ IsRecentWindow(net_up_hist, appended.up)
    /\ IsRecentWindow(net_down_hist, appended.down)
    /\ \A id \in DOMAIN gpu_util_hist :
           /\ IsRecentWindow(gpu_util_hist[id], appended.gutil[id])
           /\ IsRecentWindow(gpu_mem_hist[id], appended.gmem[id])

\* Every kind of history has overflowed, an NVIDIA one after a skipped sample.
C3_Witness ==
    /\ nvidia_gpu_count >= 1 /\ gpu_count > nvidia_gpu_count
    /\ Len(appended.cpu) > HISTORY_LEN
    /\ Len(appended.up) > HISTORY_LEN
    /\ Len(appended.gutil[0]) > HISTORY_LEN
    /\ Len(appended.gmem[nvidia_gpu_count]) > Len(appended.gmem[0])
    /\ cpu_hist[1] # appended.cpu[1]

\* ===================================================================== C4
\* C4: over any sequence of _sample_net calls (a measured elapsed time of zero
\* or less and a counter that went down included) net_max_speed never
\* decreases, is at least the floor 1.0, and is at least every rate_up and
\* rate_down returned so far.
C4_PeakMonotoneAboveRates ==
    /\ RatLe(RatInt(NetFloor), net_max_speed)
    /\ RatLe(net_obs.prev_peak, net_max_speed)
    /\ \A i \in 1..Len(appended.up) : RatLe(appended.up[i], net_max_speed)
    /\ \A i \in 1..Len(appended.down) : RatLe(appended.down[i], net_max_speed)

\* A second call, with no time measured and a counter that went down, after
\* which the peak is above the floor and above both rates just returned.
C4_Witness ==
    /\ net_obs.n >= 2
    /\ net_obs.now <= net_obs.prev_time
    /\ net_obs.sent < net_obs.prev_sent
    /\ RatLt(net_obs.up, RatInt(0))
    /\ RatLt(net_obs.up, net_max_speed)
    /\ RatLt(net_obs.down, net_max_speed)
    /\ RatLt(RatInt(NetFloor), net_max_speed)

\* ===================================================================== C5
\* The elapsed time of the last call as the claim states it.
C5_Elapsed ==
    IF net_obs.now - net_obs.prev_time <= 0 THEN TimeScale
    ELSE net_obs.now - net_obs.prev_time

\* r is delta bytes over the last call's elapsed time, per time unit.
C5_IsRate(r, delta) ==
    /\ r[2] > 0
    /\ r[1] * C5_Elapsed = delta * TimeScale * r[2]

\* C5: each _sample_net call returns (current - stored counter) / dt per
\* direction, dt being the time since the previous sample or 1.0 when that is
\* <= 0, and stores the current counters and time as the new baseline; sent
\* 1000->2000 and recv 500->500 over half a time unit give 2000 and 0 and a
\* peak of at least 2000.
C5_RateIsDeltaOverGuardedTime ==
    net_obs.n > 0 /\ raised = "none" =>
        /\ C5_IsRate(net_obs.up, net_obs.sent - net_obs.prev_sent)
        /\ C5_IsRate(net_obs.down, net_obs.recv - net_obs.prev_recv)
        /\ last_net_sent = net_obs.sent
        /\ last_net_recv = net_obs.recv
        /\ last_net_time = net_obs.now
        /\ (/\ net_obs.prev_sent = 1000 /\ net_obs.sent = 2000
            /\ net_obs.prev_recv = 500 /\ net_obs.recv = 500
            /\ 2 * (net_obs.now - net_obs.prev_time) = TimeScale)
           => /\ net_obs.up = RatInt(2000)
              /\ net_obs.down = RatInt(0)
              /\ RatLe(RatInt(2000), net_max_speed)

\* The scenario of the claim has just been sampled.
C5_Witness ==
    /\ net_obs.n > 0
    /\ net_obs.prev_sent = 1000 /\ net_obs.sent = 2000
    /\ net_obs.prev_recv = 500 /\ net_obs.recv = 500
    /\ 2 * (net_obs.now - net_obs.prev_time) = TimeScale
    /\ net_obs.up = RatInt(2000)

\* ===================================================== specification SpecGpu
\* Construction on every small host (NVML absent, failing to initialise,
\* failing to count, or counting 0 or 2 devices; 0..MaxCards sysfs cards of
\* any vendor and capability), then _gpu_info and _sample_temps calls in
\* which any device may fail to answer and any sysfs file may read or fail.
GpuNvml == [lib : BOOLEAN, init_ok : BOOLEAN, count : {-1, 0, 2}]

GpuSysfsEntries ==
    {[vendor |-> "other", util |-> TRUE, vram |-> TRUE, vram_total |-> 8,
      temp |-> TRUE, crit |-> TRUE],
     [vendor |-> "unreadable", util |-> TRUE, vram |-> TRUE, vram_total |-> 8,
      temp |-> TRUE, crit |-> TRUE],
     [vendor |-> "amd", util |-> TRUE, vram |-> TRUE, vram_total |-> 8,
      temp |-> TRUE, crit |-> TRUE],
     [vendor |-> "amd", util |-> FALSE, vram |-> FALSE, vram_total |-> 8,
      temp |-> FALSE, crit |-> FALSE],
     [vendor |-> "amd", util |-> TRUE, vram |-> TRUE, vram_total |-> -1,
      temp |-> TRUE, crit |-> FALSE]}

GpuSysfs == UNION {[1..n -> GpuSysfsEntries] : n \in 0..MaxCards}

GpuNvSamples ==
    {[ok |-> TRUE, util |-> 70, used |-> 2, total |-> 8],
     [ok |-> FALSE, util |-> 0, used |-> 0, total |-> 0]}
GpuAmdSamples == {[util |-> 30, used |-> 4], [util |-> -1, used |-> -1]}
GpuNvTemps ==
    {[ok |-> TRUE, temp |-> 60, max_ok |-> TRUE, max |-> 90],
     [ok |-> TRUE, temp |-> 60, max_ok |-> FALSE, max |-> 0],
     [ok |-> FALSE, temp |-> 0, max_ok |-> FALSE, max |-> 0]}
GpuAmdTemps == {[temp |-> 45000, crit |-> 99000], [temp |-> -1, crit |-> -1]}

InitGpu ==
    /\ ConstructNet([ok |-> TRUE, sent |-> 0, recv |-> 0], TimeScale)
    /\ \E nv \in GpuNvml, sysfs \in GpuSysfs : ConstructGpu(nv, sysfs)
    /\ ConstructProc(<<>>, TimeScale)
    /\ ConstructOom(FALSE)
    /\ ConstructGhost

GpuInfoCall ==
    /\ ncalls.gpu < MaxGpuCalls
    /\ \E nv \in [1..nvidia_gpu_count -> GpuNvSamples],
          amd \in [1..Len(amd_cards) -> GpuAmdSamples] : GpuInfo(nv, amd)
    /\ UNCHANGED runAll

\* _sample_temps is called once in a behaviour, at any point of it.
GpuTempsCall ==
    /\ ~temps_obs.called
    /\ \E nvt \in [1..nvidia_gpu_count -> GpuNvTemps],
          amdt \in [1..Len(amd_cards) -> GpuAmdTemps] :
           SampleTemps(NoSensors, nvt, amdt)
    /\ UNCHANGED runAll

NextGpu == GpuInfoCall \/ GpuTempsCall

SpecGpu == InitGpu /\ [][NextGpu]_vars

\* ==================================================================== C12
\* The host has no usable NVIDIA library (absent, failing to initialise,
\* failing to count, or counting zero devices) and no sysfs card of vendor
\* 0x1002.
C12_NoGpuHost ==
    /\ \/ ~gpu_obs.host.nv.lib
       \/ ~gpu_obs.host.nv.init_ok
       \/ gpu_obs.host.nv.count <= 0
    /\ \A i \in 1..Len(gpu_obs.host.sysfs) : gpu_obs.host.sysfs[i].vendor # "amd"

\* C12: on a host without a usable NVIDIA library and without a sysfs card of
\* vendor 0x1002, construction completes without raising, gpu_count is 0, and
\* every later _gpu_info call returns an empty list without raising.
C12_NoGpuMeansEmptyList ==
    C12_NoGpuHost =>
        /\ raised = "none"
        /\ gpu_count = 0
        /\ nvidia_gpu_count = 0
        /\ DOMAIN gpu_util_hist = {}
        /\ gpu_obs.ret = <<>>

\* The device count query failed after nvmlInit succeeded, two cards of other
\* vendors (one unreadable) were found, and _gpu_info was called twice.
C12_Witness ==
    /\ C12_NoGpuHost
    /\ gpu_obs.host.nv.lib /\ gpu_obs.host.nv.init_ok /\ gpu_obs.host.nv.count = -1
    /\ Len(gpu_obs.host.sysfs) = 2
    /\ gpu_obs.host.sysfs[1].vendor = "unreadable"
    /\ gpu_obs.host.sysfs[2].vendor = "other"
    /\ ncalls.gpu = 2
    /\ gpu_obs.called /\ gpu_obs.ret = <<>>

\* ==================================================================== C13
\* The number of NVIDIA devices construction settled on.
C13_NvidiaCount ==
    LET nv == gpu_obs.host.nv
    IN  IF nv.lib /\ nv.init_ok /\ nv.count >= 0 THEN nv.count ELSE 0

\* C13: each device in the list _gpu_info returns has an id in [0, gpu_count)
\* that is unique in the list and has a history buffer; NVIDIA device i has id
\* i < nvidia_gpu_count and AMD card j has id nvidia_gpu_count + j, so a
\* device has the same id in every cycle, also when another device's sample
\* fails and is left out.
C13_GpuIdsGlobalAndStable ==
    LET ret == gpu_obs.ret
        prev == gpu_obs.prev_ret
    IN  /\ nvidia_gpu_count = C13_NvidiaCount
        /\ gpu_count = nvidia_gpu_count + Len(amd_cards)
        /\ \A i \in 1..Len(ret) :
               /\ ret[i].id \in 0..(gpu_count - 1)
               /\ ret[i].id \in DOMAIN gpu_util_hist \cap DOMAIN gpu_mem_hist
               /\ ret[i].name[1] = "nvidia" =>
                      ret[i].id = ret[i].name[2] /\ ret[i].id < nvidia_gpu_count
               /\ ret[i].name[1] = "amd" =>
                      ret[i].id = nvidia_gpu_count + ret[i].name[2]
        /\ \A i, k \in 1..Len(ret) : i # k => ret[i].id # ret[k].id
        /\ \A i \in 1..Len(ret), k \in 1..Len(prev) :
               ret[i].name = prev[k].name => ret[i].id = prev[k].id

\* Two NVIDIA devices and an AMD card were all listed in one cycle; in the
\* next the first NVIDIA device failed and the others kept ids 1 and 2.
C13_Witness ==
    /\ nvidia_gpu_count = 2 /\ Len(amd_cards) >= 1
    /\ Len(gpu_obs.prev_ret) = gpu_count
    /\ ~gpu_obs.nv[1].ok
    /\ Len(gpu_obs.ret) = gpu_count - 1
    /\ gpu_obs.ret[1].id = 1 /\ gpu_obs.ret[1].name = <<"nvidia", 1>>
    /\ gpu_obs.ret[2].id = 2 /\ gpu_obs.ret[2].name = <<"amd", 0>>

\* ==================================================================== C19
\* The dicts of the AMD cards in the list _gpu_info returned.
C19_AmdListed == {d \in {gpu_obs.ret[i] : i \in 1..Len(gpu_obs.ret)} : d.name[1] = "amd"}

\* C19: the discovered devices and each AMD card's capability flags are those
\* found at construction in every later state; a card whose capability was
\* absent at discovery is reported with utilization 0 (memory used 0,
\* temperature None) in every cycle, whatever the metric file would read now,
\* and nothing raises.
C19_CapabilitiesFixedAtDiscovery ==
    /\ raised = "none"
    /\ amd_cards = DetectAmdGpus(gpu_obs.host.sysfs)
    /\ nvidia_gpu_count = C13_NvidiaCount
    /\ gpu_obs.called => Cardinality(C19_AmdListed) = Len(amd_cards)
    /\ \A d \in C19_AmdListed :
           LET card == amd_cards[d.name[2] + 1]
           IN  /\ ~card.has_util => d.util = 0
               /\ ~card.has_vram => d.mem_used_gb = RatInt(0) /\ d.mem_pct = RatInt(0)
    /\ temps_obs.called =>
           /\ Len(temps_obs.ret.gpus) = gpu_count
           /\ \A j \in 1..Len(amd_cards) :
                  ~amd_cards[j].has_temp =>
                      temps_obs.ret.gpus[nvidia_gpu_count + j] = NoneT

\* A card found without gpu_busy_percent, memory files and temperature input
\* was sampled twice while all three would have read: it reports 0, 0 and None.
C19_Witness ==
    /\ Len(amd_cards) = 2
    /\ ~amd_cards[2].has_util /\ ~amd_cards[2].has_vram /\ ~amd_cards[2].has_temp
    /\ amd_cards[1].has_util
    /\ ncalls.gpu = 2
    /\ gpu_obs.amd[2].util > 0 /\ gpu_obs.amd[2].used > 0
    /\ \E d \in C19_AmdListed : d.name[2] = 1 /\ d.util = 0 /\ d.mem_used_gb = RatInt(0)
    /\ \E d \in C19_AmdListed : d.name[2] = 0 /\ d.util > 0
    /\ temps_obs.called
    /\ temps_obs.ret.gpus[nvidia_gpu_count + 1] # NoneT
    /\ temps_obs.ret.gpus[nvidia_gpu_count + 2] = NoneT

\* ==================================================== specification SpecProc
\* _scan_procs under every sequence of clock readings and /proc contents over
\* the pids of ProcPids: a pid may be missing, unreadable, or come back with
\* any tick count (a pid reassigned to a younger process has fewer ticks than
\* its stored baseline), and os.listdir may give the entries in any order.
TotalMem == 409600
ProcPids == {1, 2}
ProcReadings ==
    {[ok |-> FALSE, ticks |-> 0, rss |-> 0, shared |-> -1],
     [ok |-> TRUE, ticks |-> 50, rss |-> 1, shared |-> 1],
     [ok |-> TRUE, ticks |-> 100, rss |-> 2, shared |-> 1],
     [ok |-> TRUE, ticks |-> 140, rss |-> 2, shared |-> -1]}
ProcEntries ==
    {[pid |-> p, ok |-> r.ok, ticks |-> r.ticks, rss |-> r.rss, shared |-> r.shared] :
        p \in ProcPids, r \in ProcReadings}
ProcTables ==
    UNION {{tb \in [1..n -> ProcEntries] :
               \A i, j \in 1..n : i # j => tb[i].pid # tb[j].pid} :
           n \in 1..Cardinality(ProcPids)}
ProcEnvOk == [vm_ok |-> TRUE, total_mem |-> TotalMem, ls_ok |-> TRUE]
ProcEnvsFailing ==
    {[ProcEnvOk EXCEPT !.vm_ok = FALSE], [ProcEnvOk EXCEPT !.ls_ok = FALSE]}

InitProc ==
    /\ ConstructNet([ok |-> TRUE, sent |-> 0, recv |-> 0], TimeScale)
    /\ ConstructGpu(NoNvidia, <<>>)
    /\ \E table \in ProcTables : ConstructProc(table, TimeScale)
    /\ ConstructOom(FALSE)
    /\ ConstructGhost

\* A call that returns early reads nothing but the clock, and one that fails
\* before the loop never reads the entries: they get no table to choose.
ProcTimes == {t \in clock..(clock + ScanWait * TimeScale) : t <= MaxProcTime * TimeScale}

ProcScanEarly ==
    \E t \in ProcTimes :
        /\ t - last_proc_scan < MinWait(procs_by_mem)
        /\ ScanProcs(t, ProcEnvOk, <<>>)
        /\ UNCHANGED runAll

ProcScanFull ==
    \E t \in ProcTimes :
        /\ t - last_proc_scan >= MinWait(procs_by_mem)
        /\ \E table \in ProcTables : ScanProcs(t, ProcEnvOk, table)
        /\ UNCHANGED runAll

ProcScanFails ==
    \E t \in ProcTimes :
        /\ t - last_proc_scan >= MinWait(procs_by_mem)
        /\ \E env \in ProcEnvsFailing : ScanProcs(t, env, <<>>)
        /\ UNCHANGED runAll

NextProc == ProcScanEarly \/ ProcScanFull \/ ProcScanFails

SpecProc == InitProc /\ [][NextProc]_vars

\* ===================================================================== C1
\* C1: after any sequence of full scans with arbitrary process churn (a pid
\* reassigned to a process with fewer cumulative ticks than the stored
\* baseline included) every record produced by _scan_procs has cpu_pct >= 0.
C1_CpuPctNeverNegative ==
    \A i \in 1..Len(scan_obs.procs) :
        RatLe(RatInt(0), scan_obs.procs[i].cpu_percent)

\* ===================================================================== C2
\* q is the exact quotient num / den.
IsQuotient(q, num, den) == q[2] > 0 /\ q[1] * den = num * q[2]

IndexOfPid(s, pid) == CHOOSE i \in 1..Len(s) : s[i].pid = pid

C2_FullScanStep == last_proc_scan' # last_proc_scan /\ raised' = "none"

\* C2: in every full scan, each pid with a stored baseline gets cpu_pct =
\* ((current ticks - baseline) / ticks_per_second) / (time since the previous
\* full scan) * 100; P1 going 100->140 and P2 50->50 over one time unit at
\* 100 ticks per second get 40.0 and 0.0, and P1 is ranked before P2.
C2_CpuPctIsTickRate ==
    [][C2_FullScanStep =>
        /\ \A i \in 1..Len(scan_obs'.procs) :
               LET r == scan_obs'.procs[i]
               IN  r.pid \in DOMAIN proc_cpu_prev =>
                       IsQuotient(r.cpu_percent,
                                  (TicksRead(scan_obs'.table, r.pid)
                                       - proc_cpu_prev[r.pid]) * 100 * TimeScale,
                                  ClockTicks * (clock' - last_proc_scan))
        /\ (/\ {1, 2} \subseteq DOMAIN proc_cpu_prev
            /\ proc_cpu_prev[1] = 100 /\ proc_cpu_prev[2] = 50
            /\ {1, 2} \subseteq SeqPids(scan_obs'.procs)
            /\ TicksRead(scan_obs'.table, 1) = 140
            /\ TicksRead(scan_obs'.table, 2) = 50
            /\ clock' - last_proc_scan = TimeScale)
           => LET by_cpu == procs_by_cpu'
                  i1 == IndexOfPid(by_cpu, 1)
                  i2 == IndexOfPid(by_cpu, 2)
              IN  /\ {1, 2} \subseteq SeqPids(by_cpu)
                  /\ by_cpu[i1].cpu_percent = RatInt(40)
                  /\ by_cpu[i2].cpu_percent = RatInt(0)
                  /\ i1 < i2
    ]_vars

\* The scenario was scanned one time unit after construction, with P2
\* enumerated before P1.
C2_Witness ==
    /\ scan_obs.full
    /\ Len(scan_times) = 2 /\ scan_times[2] - scan_times[1] = TimeScale
    /\ Len(scan_obs.table) = 2 /\ scan_obs.table[1].pid = 2
    /\ scan_obs.table[1].ticks = 50 /\ scan_obs.table[2].ticks = 140
    /\ Len(procs_by_cpu) = 2
    /\ procs_by_cpu[1].pid = 1 /\ procs_by_cpu[1].cpu_percent = RatInt(40)
    /\ procs_by_cpu[2].pid = 2 /\ procs_by_cpu[2].cpu_percent = RatInt(0)

\* ===================================================================== C8
\* The interval a call applies: 1 time unit while the memory list is empty, 3
\* time units otherwise.
C8_MinInterval ==
    IF procs_by_mem = <<>> THEN FirstScanWait * TimeScale ELSE ScanWait * TimeScale

\* C8: a _scan_procs call made before the minimum interval has elapsed since
\* the last full scan leaves the top-by-CPU list, the top-by-memory list, the
\* per-pid tick baselines and the last-scan time unchanged.
C8_EarlyCallChangesNothing ==
    [][clock' - last_proc_scan < C8_MinInterval =>
        UNCHANGED <<procs_by_cpu, procs_by_mem, proc_cpu_prev, last_proc_scan>>
    ]_vars

\* A call came back early, two time units or more after a scan that filled
\* the lists.
C8_Witness ==
    /\ raised = "none"
    /\ ~scan_obs.full
    /\ procs_by_cpu # <<>>
    /\ clock - last_proc_scan >= 2 * TimeScale
    /\ clock - last_proc_scan < ScanWait * TimeScale

\* ===================================================================== C9
\* C9: the first full scan happens no sooner than 1 time unit after
\* construction, and every later full scan no sooner than 3 time units after
\* the preceding one, whatever the preceding scans found.
C9_ScansKeepTheirDistance ==
    \A i \in 2..Len(scan_times) :
        scan_times[i] - scan_times[i - 1] >=
            (IF i = 2 THEN FirstScanWait ELSE ScanWait) * TimeScale

\* ==================================================================== C10
\* list is the first min(10, n) of procs in descending order of field, the
\* smaller pid first among equal values.
Precedes(a, b, field) ==
    \/ RatLt(b[field], a[field])
    \/ a[field] = b[field] /\ a.pid < b.pid

IsRanking(list, procs, field) ==
    /\ Len(list) = Min(TopN, Len(procs))
    /\ \A i \in 1..Len(list) : \E k \in 1..Len(procs) : procs[k] = list[i]
    /\ \A i, j \in 1..Len(list) : i < j => Precedes(list[i], list[j], field)
    /\ \A k \in 1..Len(procs) :
           procs[k].pid \notin SeqPids(list) =>
               \A i \in 1..Len(list) : Precedes(list[i], procs[k], field)

\* C10: after every full scan the CPU list is the first min(10, n) of the n
\* processes read, by descending cpu_pct, and the memory list the first
\* min(10, n) by descending mem_pct; among equal values the smaller pid comes
\* first, whatever the enumeration order.
C10_ListsRankedTiesByPid ==
    /\ IsRanking(procs_by_cpu, scan_obs.procs, "cpu_percent")
    /\ IsRanking(procs_by_mem, scan_obs.procs, "memory_percent")

\* ==================================================================== C11
\* The pids of a list, in its order, and what a scan saw of each process.
PidSeq(list) == [i \in 1..Len(list) |-> list[i].pid]
Seen(procs) ==
    {<<procs[i].pid, procs[i].cpu_percent, procs[i].memory_percent>> :
        i \in 1..Len(procs)}

\* C11: a full scan that sees the same processes with the same cpu_pct and
\* mem_pct as the full scan before it leaves the pid sequence of the CPU list
\* and of the memory list as they were, whatever order the process table was
\* enumerated in.
C11_SameValuesSameOrder ==
    [][(/\ C2_FullScanStep
        /\ scan_obs.procs # <<>>
        /\ Seen(scan_obs'.procs) = Seen(scan_obs.procs))
       => /\ PidSeq(procs_by_cpu') = PidSeq(procs_by_cpu)
          /\ PidSeq(procs_by_mem') = PidSeq(procs_by_mem)
    ]_vars

\* ===================================================== specification SpecOom
\* _check_oom under every sequence of clock readings and query outcomes, in
\* normal and in simulation mode.  Two timestamps of OomStamps fall in the
\* same second.
OomStamps == {-1, 4 * TimeScale, 4 * TimeScale + 1, 5 * TimeScale}
OomKernelOutcomes ==
    {[status |-> "failed", ts |-> -1, name |-> ""], NoQuery}
        \cup [status : {"line"}, ts : OomStamps, name : {"", "python3"}]
OomdOutcomes ==
    {[status |-> "failed", ts |-> -1, name |-> ""], NoQuery}
        \cup [status : {"line"}, ts : OomStamps, name : {"", "app.scope"}]
OomFakes == {NoneT, <<4, "ollama">>}

InitOom ==
    /\ ConstructNet([ok |-> TRUE, sent |-> 0, recv |-> 0], TimeScale)
    /\ ConstructGpu(NoNvidia, <<>>)
    /\ ConstructProc(<<>>, TimeScale)
    /\ \E s \in BOOLEAN : ConstructOom(s)
    /\ ConstructGhost

OomTimes ==
    {t \in clock..(clock + OomWait * TimeScale) : t <= MaxOomTime * TimeScale}

\* A call that returns the cached string runs no query and draws nothing.
OomCachedCall ==
    \E t \in OomTimes :
        /\ OomThrottled(t, last_oom_check)
        /\ CheckOom(t, NoQuery, NoQuery, NoneT)
        /\ UNCHANGED runAll

OomQueryCall ==
    \E t \in OomTimes, k \in OomKernelOutcomes, o \in OomdOutcomes :
        /\ ~sim
        /\ ~OomThrottled(t, last_oom_check)
        /\ CheckOom(t, k, o, NoneT)
        /\ UNCHANGED runAll

OomSimCall ==
    \E t \in OomTimes, fake \in OomFakes :
        /\ sim
        /\ ~OomThrottled(t, last_oom_check)
        /\ CheckOom(t, NoQuery, NoQuery, fake)
        /\ UNCHANGED runAll

NextOom == OomCachedCall \/ OomQueryCall \/ OomSimCall

SpecOom == InitOom /\ [][NextOom]_vars

\* ===================================================================== C6
\* A parsed match: the kernel line has its timestamp and process name, the
\* systemd-oomd line its timestamp.
C6_KernelMatches == oom_obs.k.status = "line" /\ oom_obs.k.ts >= 0 /\ oom_obs.k.name # ""
C6_OomdMatches == oom_obs.o.status = "line" /\ oom_obs.o.ts >= 0
C6_KernelEvent == <<oom_obs.k.ts \div TimeScale, oom_obs.k.name>>
C6_OomdEvent ==
    <<oom_obs.o.ts \div TimeScale,
      CleanName(IF oom_obs.o.name # "" THEN oom_obs.o.name ELSE "oomd-kill")>>

\* C6: a non-throttled _check_oom call whose two queries both give a parsed
\* match returns the event with the later timestamp; with one match it
\* returns that one; with none it returns None and does not raise.
C6_LaterEventWins ==
    oom_obs.queried =>
        /\ C6_KernelMatches /\ C6_OomdMatches =>
               /\ oom_obs.ret \in {C6_KernelEvent, C6_OomdEvent}
               /\ oom_obs.k.ts > oom_obs.o.ts => oom_obs.ret = C6_KernelEvent
               /\ oom_obs.o.ts > oom_obs.k.ts => oom_obs.ret = C6_OomdEvent
        /\ C6_KernelMatches /\ ~C6_OomdMatches => oom_obs.ret = C6_KernelEvent
        /\ ~C6_KernelMatches /\ C6_OomdMatches => oom_obs.ret = C6_OomdEvent
        /\ ~C6_KernelMatches /\ ~C6_OomdMatches =>
               oom_obs.ret = NoneT /\ raised = "none"

\* Both queries matched and the later, systemd-oomd, event was returned.
C6_Witness ==
    /\ oom_obs.queried
    /\ C6_KernelMatches /\ C6_OomdMatches
    /\ oom_obs.o.ts > oom_obs.k.ts
    /\ oom_obs.ret = C6_OomdEvent
    /\ C6_OomdEvent # C6_KernelEvent
    /\ last_oom_str = oom_obs.ret

\* ===================================================================== C7
\* C7: the log queries are run at most once per 5 time units; a call made
\* less than 5 units after the last querying call runs no query, returns the
\* cached result of that query and leaves the cache and the last-check time
\* unchanged.
C7_QueriesAtMostEveryFiveUnits ==
    /\ \A i \in 2..Len(oom_queries) :
           oom_queries[i] - oom_queries[i - 1] >= OomWait * TimeScale
    /\ (/\ oom_obs.called
        /\ ~oom_obs.queried
        /\ oom_queries # <<>>
        /\ oom_obs.now - oom_queries[Len(oom_queries)] < OomWait * TimeScale)
       => /\ oom_obs.ret = oom_obs.prev_str
          /\ last_oom_str = oom_obs.prev_str
          /\ last_oom_check = oom_obs.prev_check
          /\ last_oom_check = oom_queries[Len(oom_queries)]

\* After two queries, a later call came back with the cached event.
C7_Witness ==
    /\ Len(oom_queries) = 2
    /\ ~oom_obs.queried
    /\ oom_obs.now > oom_queries[2]
    /\ oom_obs.ret # NoneT
    /\ oom_obs.ret = last_oom_str

\* ==================================================================== C17
C17_KernelFailed == oom_obs.k.status = "failed"
C17_OomdFailed == oom_obs.o.status = "failed"

\* C17: when exactly one of the two log queries of a non-throttled _check_oom
\* call fails (timeout, no journalctl), the call does not raise and returns
\* what it would with no match from that source: the other source's match if
\* it has one, otherwise None.
C17_FailedQueryIsNoMatch ==
    oom_obs.queried =>
        /\ C17_KernelFailed /\ ~C17_OomdFailed =>
               /\ raised = "none"
               /\ oom_obs.ret = IF C6_OomdMatches THEN C6_OomdEvent ELSE NoneT
        /\ C17_OomdFailed /\ ~C17_KernelFailed =>
               /\ raised = "none"
               /\ oom_obs.ret = IF C6_KernelMatches THEN C6_KernelEvent ELSE NoneT

\* The kernel query failed and the systemd-oomd match was returned.
C17_Witness ==
    /\ oom_obs.queried
    /\ C17_KernelFailed /\ C6_OomdMatches
    /\ oom_obs.ret = C6_OomdEvent
    /\ last_oom_str = C6_OomdEvent

\* =================================================== specification SpecTemps
\* _sample_temps on a host without GPUs, for every list of up to MaxSensors
\* CPU sensors or memory sensors; a sensor may report a high value, a
\* critical value, both or neither, below or above the static fallbacks.
TempSensors == [current : {40, 60}, high : {0, 80, 110}, critical : {0, 90, 120}]
TempSensorLists == UNION {[1..n -> TempSensors] : n \in 0..MaxSensors}
TempReadings ==
    {[ok |-> FALSE, cpu |-> <<>>, mem |-> <<>>]}
        \cup {[ok |-> TRUE, cpu |-> l, mem |-> <<>>] : l \in TempSensorLists}
        \cup {[ok |-> TRUE, cpu |-> <<>>, mem |-> l] : l \in TempSensorLists}

InitTemps ==
    /\ ConstructNet([ok |-> TRUE, sent |-> 0, recv |-> 0], TimeScale)
    /\ ConstructGpu(NoNvidia, <<>>)
    /\ ConstructProc(<<>>, TimeScale)
    /\ ConstructOom(FALSE)
    /\ ConstructGhost

\* _sample_temps keeps no state between calls: one call per behaviour.
NextTemps ==
    /\ ~temps_obs.called
    /\ \E sensors \in TempReadings :
           SampleTemps(sensors, <<>>, <<>>) /\ UNCHANGED runAll

SpecTemps == InitTemps /\ [][NextTemps]_vars

\* ==================================================================== C20
\* The sensor of a group that reports the maximum current temperature (the
\* first of them when several report it).
C20_Hottest(sensors) ==
    LET top == CHOOSE i \in 1..Len(sensors) :
                   /\ \A k \in 1..Len(sensors) : sensors[k].current <= sensors[i].current
                   /\ \A k \in 1..(i - 1) : sensors[k].current < sensors[i].current
    IN  sensors[top]

\* Critical if reported, else high if reported, else the fallback.
C20_Threshold(sn, fallback) ==
    IF sn.critical # 0 THEN sn.critical
    ELSE IF sn.high # 0 THEN sn.high
    ELSE fallback

Exited == pc \in {"exit_quit", "exit_signal", "exit_error", "exit_early"}

\* _cleanup(): nvmlShutdown() is called when self.nvidia_ok; n counts the calls.
Cleanup(n) == IF nvidia_ok THEN n + 1 ELSE n

\* _build returns the theme picker, calling no collector, while the picker is
\* open; otherwise it starts with _scan_procs.
BuildEntry(picking) == IF picking THEN "assembled" ELSE "b_scan"

\* _handle_key: the picker after the key, and whether the key quits.
HandleKeyPicking(key) ==
    IF picking_theme THEN key \notin {"ESC", "ENTER"} ELSE key \in {"t", "T"}

HandleKeyQuitsInAnyMode(key) == key \in {"q", "Q", "ESC"}

HandleKeyQuits(key) == ~picking_theme /\ key \in {"q", "Q", "ESC"}

\* _handle_key: the cursor after the key.  The arrows move it inside the
\* picker, clamped to the list; t or T outside the picker puts it on the
\* active theme.
HandleKeyCursorUnclamped(key) ==
    IF picking_theme
    THEN CASE key = "UP" -> theme_cursor - PickerCols
           [] key = "DOWN" -> theme_cursor + PickerCols
           [] key = "LEFT" -> theme_cursor - 1
           [] key = "RIGHT" -> theme_cursor + 1
           [] OTHER -> theme_cursor
    ELSE IF key \in {"t", "T"} THEN ThemeIndex(theme_name) ELSE theme_cursor

HandleKeyCursor(key) ==
    LET total == Len(THEME_NAMES)
    IN  IF picking_theme
        THEN CASE key = "UP" -> Max(0, theme_cursor - PickerCols)
               [] key = "DOWN" -> Min(total - 1, theme_cursor + PickerCols)
               [] key = "LEFT" -> Max(0, theme_cursor - 1)
               [] key = "RIGHT" -> Min(total - 1, theme_cursor + 1)
               [] OTHER -> theme_cursor
        ELSE IF key \in {"t", "T"} THEN ThemeIndex(theme_name) ELSE theme_cursor

\* _handle_key: the active theme after the key; ENTER in the picker takes
\* THEME_NAMES[self.theme_cursor].
HandleKeyTheme(key) ==
    IF picking_theme /\ key = "ENTER" THEN THEME_NAMES[theme_cursor + 1]
    ELSE theme_name

\* _save_config runs last in the ENTER branch and is called outside any try
\* block: save_ok = FALSE when the config directory or file cannot be written.
HandleKeyRaises(key, save_ok) ==
    IF picking_theme /\ key = "ENTER" /\ ~save_ok THEN "_handle_key" ELSE "none"

\* What _handle_key(key) does to the object; key "" is None.
HandleKeyEffect(key, save_ok) ==
    /\ picking_theme' = IF key = "" THEN picking_theme ELSE HandleKeyPicking(key)
    /\ theme_cursor' = HandleKeyCursor(key)
    /\ theme_name' = HandleKeyTheme(key)
    /\ raised' = HandleKeyRaises(key, save_ok)
    /\ key_obs' = [key |-> key,
                   quit |-> key # "" /\ HandleKeyQuits(key),
                   picking |-> picking_theme,
                   theme |-> theme_name, cursor |-> theme_cursor]

\* _handle_key called on a KTop object, outside run().
HandleKey(key, save_ok) ==
    /\ raised = "none"
    /\ HandleKeyEffect(key, save_ok)
    /\ UNCHANGED <<clock, pc, nvml_shutdowns, last_refresh, tick_calls>>
    /\ UNCHANGED <<histVars, netAll, gpuAll, procAll, oomAll, appended, ncalls, temps_obs>>

\* The frame of a step of run() that calls no collector.
RunFrame ==
    UNCHANGED <<histVars, netAll, gpuAll, procAll, oomAll, appended, ncalls, temps_obs>>

\* A signal arrives between construction and run(), before run() has
\* installed its handlers: the default action stops the process and nothing
\* is cleaned up.
StopBeforeRun ==
    /\ pc = "constructed" /\ raised = "none"
    /\ pc' = "exit_early"
    /\ UNCHANGED <<raised, clock, picking_theme, nvml_shutdowns, last_refresh, tick_calls>>
    /\ UNCHANGED themeAll
    /\ RunFrame

\* run() up to the first assembly: the handlers are installed,
\* termios.tcgetattr(fd) is called outside the try block (tty_ok = FALSE: it
\* raises, stdin is not a terminal), then Live(self._build(), ...) starts.
RunStart(tty_ok) ==
    /\ pc = "constructed" /\ raised = "none"
    /\ IF tty_ok
       THEN /\ pc' = BuildEntry(picking_theme)
            /\ last_refresh' = clock
            /\ UNCHANGED raised
       ELSE /\ pc' = "exit_early"
            /\ raised' = "run"
            /\ UNCHANGED last_refresh
    /\ tick_calls' = NoCalls
    /\ UNCHANGED <<clock, picking_theme, nvml_shutdowns, themeAll>>
    /\ RunFrame

\* One round of the loop: sleep, _read_key, _handle_key, and the decision to
\* assemble.  key: what _read_key returns ("" for None); d: the clock steps
\* that passed since the last reading; save_ok: whether _save_config succeeds.
\* An exception of _handle_key leaves through run()'s finally block.
Poll(key, d, save_ok) ==
    /\ pc \in {"assembled", "loop"} /\ raised = "none"
    /\ clock' = clock + d
    /\ HandleKeyEffect(key, save_ok)
    /\ RunFrame
    /\ IF raised' # "none"
       THEN /\ pc' = "exit_error"
            /\ nvml_shutdowns' = Cleanup(nvml_shutdowns)
            /\ UNCHANGED <<last_refresh, tick_calls>>
       ELSE IF key # "" /\ HandleKeyQuits(key)
       THEN /\ pc' = "exit_quit"
            /\ nvml_shutdowns' = Cleanup(nvml_shutdowns)
            /\ UNCHANGED <<last_refresh, tick_calls>>
       ELSE IF key # "" \/ clock' - last_refresh >= Refresh * TimeScale
       THEN /\ pc' = BuildEntry(picking_theme')
            /\ tick_calls' = NoCalls
            /\ last_refresh' = IF key = "" THEN clock' ELSE last_refresh
            /\ UNCHANGED nvml_shutdowns
       ELSE /\ pc' = "loop"
            /\ UNCHANGED <<nvml_shutdowns, last_refresh, tick_calls>>

\* SIGINT or SIGTERM once the handlers are installed: _quit calls _cleanup and
\* sys.exit(0), and the SystemExit passes through run()'s finally block, which
\* calls _cleanup again.
Signal ==
    /\ pc \notin {"collectors", "constructed"} /\ ~Exited /\ raised = "none"
    /\ pc' = "exit_signal"
    /\ nvml_shutdowns' = Cleanup(Cleanup(nvml_shutdowns))
    /\ UNCHANGED <<raised, clock, picking_theme, last_refresh, tick_calls, themeAll>>
    /\ RunFrame

\* What follows a collector's call inside _build: the next position, or, when
\* the call raised, the finally block of run() and the end of the process.
Called(name, next) ==
    /\ tick_calls' = [tick_calls EXCEPT ![name] = @ + 1]
    /\ pc' = IF raised' = "none" THEN next ELSE "exit_error"
    /\ nvml_shutdowns' = IF raised' = "none" THEN nvml_shutdowns
                         ELSE Cleanup(nvml_shutdowns)
    /\ UNCHANGED <<picking_theme, last_refresh, themeAll>>

\* _mem_panel: psutil.virtual_memory() and psutil.swap_memory().
MemPanel(ok) ==
    /\ raised = "none"
    /\ raised' = IF ok THEN "none" ELSE "_mem_panel"
    /\ UNCHANGED clock
    /\ RunFrame

\* ===================================================== specification SpecRun
\* main(): construction, which may raise after the GPU init, then run() with
\* every sequence of keys, delays, signals and collector failures, for up to
\* MaxTicks assemblies that run the collectors.  Inside one _build the clock
\* is read as it was at the poll that started it.
RunT0 == OomWait * TimeScale
RunNvml ==
    {NoNvidia,
     [lib |-> TRUE, init_ok |-> TRUE, count |-> 1],
     [lib |-> TRUE, init_ok |-> TRUE, count |-> -1]}
RunSysfs == {<<>>}
RunTable == <<[pid |-> 1, ok |-> TRUE, ticks |-> 50, rss |-> 1, shared |-> 1]>>
RunProcEnvs == {ProcEnvOk, [ProcEnvOk EXCEPT !.vm_ok = FALSE]}
RunCounters == {[ok |-> TRUE, sent |-> 1000, recv |-> 500],
                [ok |-> FALSE, sent |-> 0, recv |-> 0]}
RunNvTemp == [ok |-> TRUE, temp |-> 60, max_ok |-> TRUE, max |-> 90]
RunAmdTemp == [temp |-> 45000, crit |-> 99000]
RunKernelOutcomes ==
    {[status |-> "failed", ts |-> -1, name |-> ""],
     [status |-> "line", ts |-> 4 * TimeScale, name |-> "python3"],
     [status |-> "line", ts |-> FromTimestampMax + 1, name |-> "python3"]}
RunOomdOutcomes == {[status |-> "failed", ts |-> -1, name |-> ""], NoQuery}
RunKeys == {"", "q", "t", "ESC", "ENTER", "x"}
RunDelays == {0, 1, ScanWait * TimeScale, OomWait * TimeScale}

InitRun ==
    /\ ConstructNet([ok |-> TRUE, sent |-> 0, recv |-> 0], RunT0)
    /\ \E nv \in RunNvml, sysfs \in RunSysfs : ConstructGpu(nv, sysfs)
    /\ ConstructProc(RunTable, RunT0)
    /\ ConstructOom(FALSE)
    /\ ConstructRest
    /\ ConstructTheme(NoneT, NoneT)
    /\ \E completes \in BOOLEAN :
           /\ raised = IF completes THEN "none" ELSE "__init__"
           /\ pc = IF completes THEN "constructed" ELSE "exit_early"

RunStarts == \E tty_ok \in BOOLEAN : RunStart(tty_ok)

RunPolls ==
    \E key \in RunKeys, d \in RunDelays :
        /\ ncalls.net < MaxTicks
        /\ clock + d <= MaxRunTime * TimeScale
        /\ \E save_ok \in (IF key = "ENTER" /\ picking_theme THEN BOOLEAN ELSE {TRUE}) :
               Poll(key, d, save_ok)

BuildScan ==
    /\ pc = "b_scan"
    /\ \E env \in RunProcEnvs : ScanProcs(clock, env, RunTable)
    /\ Called("scan", "b_gpu")

BuildGpu ==
    /\ pc = "b_gpu"
    /\ \E nv \in [1..nvidia_gpu_count -> GpuNvSamples],
          amd \in [1..Len(amd_cards) -> GpuAmdSamples] : GpuInfo(nv, amd)
    /\ Called("gpu", "b_net")

BuildNet ==
    /\ pc = "b_net"
    /\ \E c \in RunCounters : SampleNet(c, clock)
    /\ Called("net", "b_cpu")

BuildCpu ==
    /\ pc = "b_cpu"
    /\ SampleCpu(HistCpuPct(ncalls.cpu))
    /\ Called("cpu", "b_mem")

BuildMem ==
    /\ pc = "b_mem"
    /\ \E ok \in BOOLEAN : MemPanel(ok)
    /\ Called("mem", "b_temps")

BuildTemps ==
    /\ pc = "b_temps"
    /\ SampleTemps(NoSensors, [i \in 1..nvidia_gpu_count |-> RunNvTemp],
                   [j \in 1..Len(amd_cards) |-> RunAmdTemp])
    /\ Called("temps", "b_oom")

BuildOom ==
    /\ pc = "b_oom"
    /\ \E k \in RunKernelOutcomes, o \in RunOomdOutcomes : CheckOom(clock, k, o, NoneT)
    /\ Called("oom", "assembled")

NextRun ==
    \/ StopBeforeRun
    \/ RunStarts
    \/ RunPolls
    \/ Signal
    \/ BuildScan
    \/ BuildGpu
    \/ BuildNet
    \/ BuildCpu
    \/ BuildMem
    \/ BuildTemps
    \/ BuildOom

SpecRun == InitRun /\ [][NextRun]_vars

\* ==================================================================== C14
\* C14: if nvmlInit succeeded, then on every path by which the program stops
\* (quit key, signal, an exception in the loop, in construction or before
\* run()'s try block, a failed device count after a successful init)
\* nvmlShutdown has been called when the process exits.
C14_ShutdownOnEveryExit ==
    Exited /\ nvml_initialized => nvml_shutdowns >= 1

\* ==================================================================== C15
\* C15: once the loop is running no tick raises out of its collector,
\* whatever external read fails: _scan_procs, _sample_net, _sample_cpu,
\* _sample_temps, _gpu_info and _check_oom all return normally.
C15_NoCollectorRaises ==
    raised \notin {"_scan_procs", "_sample_net", "_sample_cpu", "_sample_temps",
                   "_gpu_info", "_check_oom"}

\* ==================================================================== C16
\* C16: every assembly of the run loop, triggered by the cadence or by a key,
\* in any UI mode (the theme picker open included), has called each collector
\* (process scan, GPU, network, CPU, memory, thermal, OOM check) exactly once
\* when the result is assembled.
C16_EachCollectorOncePerAssembly ==
    pc = "assembled" => \A c \in DOMAIN tick_calls : tick_calls[c] = 1

\* ==================================================================== C18
\* The devices of the previous _gpu_info list whose sample raised in this call.
C18_FailedNow ==
    {d \in {gpu_obs.prev_ret[i] : i \in 1..Len(gpu_obs.prev_ret)} :
        d.name[1] = "nvidia" /\ ~gpu_obs.nv[d.name[2] + 1].ok}

\* C18: on a transient failure the last known value is kept: an OOM check
\* whose two queries fail reports the event the previous check found, and a
\* GPU whose sample raises in this cycle is reported with its previous values.
C18_LastKnownValueKept ==
    /\ (/\ oom_obs.queried
        /\ oom_obs.k.status = "failed" /\ oom_obs.o.status = "failed"
        /\ oom_obs.prev_str # NoneT)
       => oom_obs.ret = oom_obs.prev_str
    /\ gpu_obs.called =>
           \A d \in C18_FailedNow : \E i \in 1..Len(gpu_obs.ret) : gpu_obs.ret[i] = d

\* ============================================ C22, C23, C24 (under SpecProc)
\* The entries of a table whose stat read succeeded, and those whose read failed.
C22_Read(table) == {table[i].pid : i \in {k \in 1..Len(table) : table[k].ok}}
C22_Vanished(table) == {table[i].pid : i \in {k \in 1..Len(table) : ~table[k].ok}}
C22_NoStatm(table) ==
    {table[i].pid : i \in {k \in 1..Len(table) : table[k].ok /\ table[k].shared < 0}}
C22_Records(pid) ==
    {r \in {scan_obs.procs[i] : i \in 1..Len(scan_obs.procs)}
             \cup {procs_by_cpu[i] : i \in 1..Len(procs_by_cpu)}
             \cup {procs_by_mem[i] : i \in 1..Len(procs_by_mem)} : r.pid = pid}

\* C22: a process that disappears or becomes unreadable between the listing
\* and the read of its stat entry does not make the full scan raise; its pid
\* is absent from the scan's records and from both top lists and every other
\* process is still reported; a process that disappears before its
\* shared-memory read stays listed, with shared memory 0.
C22_VanishedProcessSkipped ==
    scan_obs.full =>
        /\ raised = "none"
        /\ \A pid \in C22_Vanished(scan_obs.table) : C22_Records(pid) = {}
        /\ C22_Read(scan_obs.table) = SeqPids(scan_obs.procs)
        /\ Len(scan_obs.procs) <= TopN =>
               /\ SeqPids(procs_by_cpu) = C22_Read(scan_obs.table)
               /\ SeqPids(procs_by_mem) = C22_Read(scan_obs.table)
        /\ \A pid \in C22_NoStatm(scan_obs.table) :
               /\ C22_Records(pid) # {}
               /\ \A r \in C22_Records(pid) : r.memory_info = <<r.rss, 0>>

\* A process that held a baseline vanished before its stat read, listed
\* first, and the other one lost its statm file.
C22_Witness ==
    /\ scan_obs.full
    /\ Len(scan_obs.table) = 2
    /\ ~scan_obs.table[1].ok /\ scan_obs.table[1].pid \in scan_obs.prev
    /\ scan_obs.table[2].ok /\ scan_obs.table[2].shared < 0
    /\ Len(procs_by_cpu) = 1

\* C23: a pid with no stored baseline when a full scan reads it (first seen,
\* or pruned by an earlier scan) gets cpu_pct = 0 in that scan whatever its
\* tick count, and that tick count becomes its baseline.
C23_NewPidStartsAtZero ==
    scan_obs.full =>
        \A i \in 1..Len(scan_obs.procs) :
            LET r == scan_obs.procs[i]
            IN  r.pid \notin scan_obs.prev =>
                    /\ r.cpu_percent = RatInt(0)
                    /\ r.pid \in DOMAIN proc_cpu_prev
                    /\ proc_cpu_prev[r.pid] = TicksRead(scan_obs.table, r.pid)

\* In the second scan or a later one, a pid without baseline was read with
\* 140 ticks next to a pid that had one.
C23_Witness ==
    /\ scan_obs.full
    /\ Len(scan_times) >= 3
    /\ \E i, j \in 1..Len(scan_obs.procs) :
           /\ scan_obs.procs[i].pid \notin scan_obs.prev
           /\ TicksRead(scan_obs.table, scan_obs.procs[i].pid) = 140
           /\ scan_obs.procs[j].pid \in scan_obs.prev

\* C24: after every full scan the pids that hold a baseline are exactly the
\* pids read in that scan (the baselines of absent or unreadable pids are
\* removed), and a throttled call removes no baseline.
C24_BaselinesAreThePidsRead ==
    [][/\ C2_FullScanStep =>
              DOMAIN proc_cpu_prev' = C22_Read(scan_obs'.table)
       /\ last_proc_scan' = last_proc_scan => proc_cpu_prev' = proc_cpu_prev
    ]_vars

\* A scan dropped the baseline of a pid it did not read and kept another.
C24_Witness ==
    /\ scan_obs.full
    /\ \E gone \in scan_obs.prev : gone \notin DOMAIN proc_cpu_prev
    /\ \E kept \in scan_obs.prev : kept \in DOMAIN proc_cpu_prev

\* ===================================================== specification SpecTop
\* Full scans of a /proc with more processes than a top list holds.  Between
\* two scans every process gains between 200 and 320 ticks; k and m shuffle
\* which processes gain the most ticks and hold the most memory, f is a pid
\* whose statm read fails and u a pid whose stat read fails (0: none).
TopMults == {1, 2, 5}
TopTable(n, k, m, f, u) ==
    [p \in 1..MaxTopProcs |->
        [pid |-> p, ok |-> p # u,
         ticks |-> 200 * n + ((p * k) % 13) * 10,
         rss |-> ((p * m) % 13) + 1,
         shared |-> IF p = f THEN -1 ELSE 1]]

InitTop ==
    /\ ConstructNet([ok |-> TRUE, sent |-> 0, recv |-> 0], TimeScale)
    /\ ConstructGpu(NoNvidia, <<>>)
    /\ \E k \in TopMults : ConstructProc(TopTable(0, k, 1, 0, 0), TimeScale)
    /\ ConstructOom(FALSE)
    /\ ConstructGhost

TopScanEarly ==
    /\ ScanProcs(clock + 1, ProcEnvOk, <<>>)
    /\ last_proc_scan' = last_proc_scan
    /\ UNCHANGED runAll

TopScanFull ==
    /\ Len(scan_times) <= MaxTopScans
    /\ \E k \in TopMults, m \in TopMults, f \in {0, 3}, u \in {0, 7} :
           ScanProcs(last_proc_scan + MinWait(procs_by_mem), ProcEnvOk,
                     TopTable(Len(scan_times), k, m, f, u))
    /\ UNCHANGED runAll

NextTop == TopScanEarly \/ TopScanFull

SpecTop == InitTop /\ [][NextTop]_vars

\* ==================================================================== C25
C25_Listed == SeqPids(procs_by_cpu) \cup SeqPids(procs_by_mem)

\* C25: in every full scan the statm read is performed for a pid if and only
\* if the pid is in the top-10 CPU list or the top-10 memory list of that
\* scan; afterwards every record of either list carries a memory_info value
\* and no record outside the two lists does.
C25_StatmOnlyForListedPids ==
    scan_obs.full =>
        /\ scan_obs.statm = C25_Listed
        /\ \A i \in 1..Len(procs_by_cpu) : procs_by_cpu[i].memory_info # NoneT
        /\ \A i \in 1..Len(procs_by_mem) : procs_by_mem[i].memory_info # NoneT
        /\ \A i \in 1..Len(scan_obs.procs) :
               scan_obs.procs[i].pid \notin C25_Listed =>
                   scan_obs.procs[i].memory_info = NoneT

\* Twelve processes were read, the two lists hold ten each and differ, and a
\* process is in neither.
C25_Witness ==
    /\ scan_obs.full
    /\ Len(scan_obs.procs) = MaxTopProcs
    /\ Len(procs_by_cpu) = TopN /\ Len(procs_by_mem) = TopN
    /\ SeqPids(procs_by_cpu) # SeqPids(procs_by_mem)
    /\ \E i \in 1..Len(scan_obs.procs) : scan_obs.procs[i].pid \notin C25_Listed

\* ==================================================================== C26
\* C26: on every exit path of run() (quit key, exception inside the loop,
\* SIGINT or SIGTERM handled by _quit) nvmlShutdown is called at most once.
C26_ShutdownAtMostOnce ==
    nvml_shutdowns <= 1

\* ======================================================= C27 (under SpecGpu)
\* C27: every _sample_temps result has a GPU list of exactly gpu_count
\* entries in device-id order, NVIDIA first, then AMD: entry i is the reading
\* of the device with id i, or None when that device has no temperature
\* capability or its read failed in this cycle; a failed read of one device
\* never shifts the position of another device's reading.
C27_OneEntryPerDeviceInIdOrder ==
    temps_obs.called =>
        LET gpus == temps_obs.ret.gpus
        IN  /\ Len(gpus) = gpu_count
            /\ \A i \in 1..nvidia_gpu_count :
                   LET r == temps_obs.nvt[i]
                   IN  /\ gpus[i] = NoneT <=> ~r.ok
                       /\ r.ok => gpus[i][1].temp = RatInt(r.temp)
            /\ \A j \in 1..Len(amd_cards) :
                   LET r == temps_obs.amdt[j]
                       e == gpus[nvidia_gpu_count + j]
                   IN  /\ e = NoneT <=> (~amd_cards[j].has_temp \/ r.temp < 0)
                       /\ e # NoneT => e[1].temp = Rat(r.temp, 1000)

\* Two NVIDIA devices and an AMD card: device 0 failed to answer, device 1
\* and the card were read.
C27_Witness ==
    /\ temps_obs.called
    /\ nvidia_gpu_count = 2 /\ Len(amd_cards) >= 1
    /\ ~temps_obs.nvt[1].ok /\ temps_obs.nvt[2].ok
    /\ temps_obs.ret.gpus[1] = NoneT
    /\ temps_obs.ret.gpus[2] # NoneT
    /\ temps_obs.ret.gpus[3] # NoneT

\* ================================================== specification SpecPicker
\* _handle_key under every sequence of keys, on an object built with a config
\* file that names a theme, names an unknown theme or names none, and with or
\* without a known or unknown --theme.
PickerConfigs == {NoneT, <<"Nord">>, <<"No Such Theme">>}
PickerArgs == {NoneT, <<"Horizon">>, <<"bogus">>}
PickerKeys == {"", "q", "Q", "t", "T", "ESC", "ENTER", "UP", "DOWN", "LEFT", "RIGHT", "x"}

InitPicker ==
    /\ ConstructNet([ok |-> TRUE, sent |-> 0, recv |-> 0], TimeScale)
    /\ ConstructGpu(NoNvidia, <<>>)
    /\ ConstructProc(<<>>, TimeScale)
    /\ ConstructOom(FALSE)
    /\ raised = "none"
    /\ pc = "collectors"
    /\ ConstructRest
    /\ \E cfg \in PickerConfigs, arg \in PickerArgs : ConstructTheme(cfg, arg)

NextPicker ==
    \E key \in PickerKeys, save_ok \in BOOLEAN : HandleKey(key, save_ok)

SpecPicker == InitPicker /\ [][NextPicker]_vars

\* ==================================================================== C28
\* C28: while the theme picker is open no key makes _handle_key return quit:
\* ESC only closes the picker and leaves the active theme unchanged, ENTER
\* closes it and sets the active theme to the theme under the cursor, q and Q
\* do nothing; quit is returned only for q, Q or ESC pressed while the picker
\* is closed.
C28_NoQuitFromPicker ==
    LET key == key_obs.key
    IN  /\ key_obs.picking => ~key_obs.quit
        /\ key_obs.picking /\ key = "ESC" =>
               ~picking_theme /\ theme_name = key_obs.theme
        /\ key_obs.picking /\ key = "ENTER" =>
               ~picking_theme /\ theme_name = THEME_NAMES[key_obs.cursor + 1]
        /\ key_obs.picking /\ key \in {"q", "Q"} =>
               /\ picking_theme
               /\ theme_name = key_obs.theme
               /\ theme_cursor = key_obs.cursor
        /\ key_obs.quit <=> (~key_obs.picking /\ key \in {"q", "Q", "ESC"})

\* ENTER in the picker chose a theme other than the active one.
C28_Witness ==
    /\ raised = "none"
    /\ key_obs.picking /\ key_obs.key = "ENTER"
    /\ theme_name # key_obs.theme
    /\ ~picking_theme

\* ==================================================================== C29
\* C29: for every sequence of keys handled by _handle_key, theme_cursor is a
\* valid index into THEME_NAMES (0 <= theme_cursor < number of themes) and
\* theme_name is a key of THEMES.
C29_CursorAndThemeValid ==
    /\ theme_cursor \in 0..(Len(THEME_NAMES) - 1)
    /\ theme_name \in THEMES

\* DOWN was pressed on the last row, where a full step would leave the list.
C29_Witness ==
    /\ key_obs.picking /\ key_obs.key = "DOWN"
    /\ key_obs.cursor = Len(THEME_NAMES) - 2
    /\ theme_cursor = Len(THEME_NAMES) - 1

\* ================================================= specification SpecCadence
\* run() on a host where no read raises, polled every half time unit or every
\* time unit, with or without a key that only asks for a redraw ("x") or
\* opens the picker ("t"): every interleaving of key-triggered and
\* cadence-triggered assemblies up to MaxCadenceTime.  A scan may find the
\* process or find it unreadable, a kernel query may find a line or nothing.
CadenceKeys == {"", "x", "t", "ESC"}
CadenceDelays == {1, Refresh * TimeScale}
CadenceTables == {RunTable, <<[pid |-> 1, ok |-> FALSE, ticks |-> 0, rss |-> 0, shared |-> -1]>>}
CadenceKernelOutcomes ==
    {NoQuery, [status |-> "line", ts |-> 4 * TimeScale, name |-> "python3"]}

InitCadence ==
    /\ ConstructNet([ok |-> TRUE, sent |-> 0, recv |-> 0], RunT0)
    /\ ConstructGpu(NoNvidia, <<>>)
    /\ ConstructProc(RunTable, RunT0)
    /\ ConstructOom(FALSE)
    /\ ConstructRest
    /\ ConstructTheme(NoneT, NoneT)
    /\ raised = "none"
    /\ pc = "constructed"

CadenceStart == RunStart(TRUE)

CadencePolls ==
    \E key \in CadenceKeys, d \in CadenceDelays :
        /\ clock + d <= MaxCadenceTime * TimeScale
        /\ Poll(key, d, TRUE)

CadenceScan ==
    /\ pc = "b_scan"
    /\ \E table \in CadenceTables : ScanProcs(clock, ProcEnvOk, table)
    /\ Called("scan", "b_gpu")

CadenceGpu ==
    /\ pc = "b_gpu"
    /\ GpuInfo(<<>>, <<>>)
    /\ Called("gpu", "b_net")

CadenceNet ==
    /\ pc = "b_net"
    /\ SampleNet([ok |-> TRUE, sent |-> 1000, recv |-> 500], clock)
    /\ Called("net", "b_cpu")

CadenceCpu ==
    /\ pc = "b_cpu"
    /\ SampleCpu(50)
    /\ Called("cpu", "b_mem")

CadenceMem ==
    /\ pc = "b_mem"
    /\ MemPanel(TRUE)
    /\ Called("mem", "b_temps")

CadenceTemps ==
    /\ pc = "b_temps"
    /\ SampleTemps(NoSensors, <<>>, <<>>)
    /\ Called("temps", "b_oom")

CadenceOom ==
    /\ pc = "b_oom"
    /\ \E k \in CadenceKernelOutcomes : CheckOom(clock, k, NoQuery, NoneT)
    /\ Called("oom", "assembled")

NextCadence ==
    \/ CadenceStart
    \/ CadencePolls
    \/ CadenceScan
    \/ CadenceGpu
    \/ CadenceNet
    \/ CadenceCpu
    \/ CadenceMem
    \/ CadenceTemps
    \/ CadenceOom

SpecCadence == InitCadence /\ [][NextCadence]_vars

\* ==================================================================== C21
\* C21: a key-triggered assembly does not alter collector throttling.  In
\* every interleaving of key-triggered and cadence-triggered assemblies a full
\* process scan runs only when the scan's own interval (1 time unit while the
\* memory list is empty, 3 otherwise) has passed since the last full scan,
\* and an OOM query only when 5 time units have passed since the last query;
\* a throttled call, and the handling of a key, leave the state that decides
\* the next scan and the next query as it was, so these happen when they
\* would have happened without the throttled calls.
C21_KeysDoNotAlterThrottling ==
    [][/\ scan_times' # scan_times =>
              /\ pc = "b_scan"
              /\ clock' - last_proc_scan >= C8_MinInterval
       /\ scan_times' = scan_times =>
              UNCHANGED <<last_proc_scan, procs_by_mem, procs_by_cpu, proc_cpu_prev>>
       /\ oom_queries' # oom_queries =>
              /\ pc = "b_oom"
              /\ clock' - last_oom_check >= OomWait * TimeScale
       /\ oom_queries' = oom_queries => UNCHANGED <<last_oom_check, last_oom_str>>
    ]_vars

\* Seven or more assemblies ran the collectors, where the cadence alone gives
\* five, and the full scans happened 1 time unit after construction and 3
\* time units after that.
C21_Witness ==
    /\ Len(scan_times) = 3
    /\ scan_times[2] - scan_times[1] = FirstScanWait * TimeScale
    /\ scan_times[3] - scan_times[2] = ScanWait * TimeScale
    /\ ncalls.net >= 7
    /\ key_obs.key = "x"
    /\ pc = "assembled"
    /\ oom_obs.throttled

====
